---- MODULE Spec2Model ----
(***************************************************************************)
(* The technical-indicator batch job of the trading application            *)
(* (trading/management/commands/calculate_technical_indicators.py), the    *)
(* rows it reads and writes (trading/models.py: Stock, StockPrice,         *)
(* TechnicalIndicators) and the other command that writes the same         *)
(* snapshot row (update_msf_signals.py); then the order methods of         *)
(* PreMarketStopLoss (trading/models.py) and the views trade_stock and     *)
(* cancel_stop_loss (trading/views.py).                                    *)
(*                                                                         *)
(* Numbers.  Money is counted in cents (the DecimalFields of Stock and     *)
(* StockPrice have 2 decimal places).  The code converts closes to float   *)
(* and holds each indicator as Decimal(str(float)) until save() rounds it  *)
(* to the field's decimal places.  TLC has 32-bit integers only, so the    *)
(* in-memory value of a price-like indicator is a fixed-point number with  *)
(* WorkPerCent steps per cent (1/20000 of a currency unit: the three SMAs  *)
(* of whole-cent closes are exact in it) and the in-memory value of a      *)
(* percentage (RSI, price position, volume ratio) has PctWork steps per 1. *)
(* A stored price-like field has StoredPerCent steps per cent (4 decimal   *)
(* places), a stored percentage PctStored steps per 1 (2 decimal places).  *)
(* Where a float would carry about 16 digits, the EMA recurrence, the      *)
(* standard deviation and the quotients are rounded to the working step.   *)
(*                                                                         *)
(* A nullable value is <<>> (None) or <<v>>.                               *)
(***************************************************************************)
EXTENDS Integers, Sequences, FiniteSets, TLC

None == <<>>

Some(v) == <<v>>

IsNone(o) == o = <<>>

Val(o) == o[1]

\* Python truthiness of an optional number: None, 0 and Decimal('0') are falsy.
Truthy(o) == o # <<>> /\ o[1] # 0

----------------------------------------------------------------------------
(* Scales *)

RECURSIVE Pow10(_)
Pow10(k) == IF k = 0 THEN 1 ELSE 10 * Pow10(k - 1)

StoredPerCent == 100

WorkPerCent == 2 * StoredPerCent

PctStored == 100

\* Decimal digits of a percentage in memory; PctWork steps make 1 %.
PctDigits == 4

PctWork == Pow10(PctDigits)

----------------------------------------------------------------------------
(* Arithmetic helpers *)

Abs(x) == IF x < 0 THEN -x ELSE x

Min2(a, b) == IF a < b THEN a ELSE b

Max2(a, b) == IF a > b THEN a ELSE b

\* a / b rounded to the nearest integer, ties to even (b > 0): the rounding
\* of Decimal.quantize under the default context.
RoundDiv(a, b) ==
    LET q == a \div b
        r == a % b
    IN  IF 2 * r < b THEN q
        ELSE IF 2 * r > b THEN q + 1
        ELSE IF q % 2 = 0 THEN q ELSE q + 1

\* floor(num * 10^k / den) by long division, one decimal digit at a time, so
\* that no intermediate exceeds 10 * den (den > 0).
RECURSIVE DivDigits(_, _, _)
DivDigits(num, den, k) ==
    IF k = 0 THEN num \div den
    ELSE (num \div den) * Pow10(k) + DivDigits((num % den) * 10, den, k - 1)

\* num * 10^k / den rounded to the nearest integer (den > 0).
RoundQ(num, den, k) == (DivDigits(2 * num, den, k) + 1) \div 2

\* floor(sqrt(x)) for x >= 0, by bisection on [lo, hi].
RECURSIVE ISqrtIter(_, _, _)
ISqrtIter(x, lo, hi) ==
    IF lo >= hi THEN lo
    ELSE LET mid == (lo + hi + 1) \div 2
         IN  IF mid * mid <= x THEN ISqrtIter(x, mid, hi)
             ELSE ISqrtIter(x, lo, mid - 1)

ISqrt(x) == ISqrtIter(x, 0, Min2(x, 46340))

\* sum(s[i..j]), min(s[i..j]), max(s[i..j]): the range is halved at each
\* step, which keeps the evaluation shallow for 200 bars.
RECURSIVE SumRange(_, _, _)
SumRange(s, i, j) ==
    IF i > j THEN 0
    ELSE IF i = j THEN s[i]
    ELSE LET mid == (i + j) \div 2
         IN  SumRange(s, i, mid) + SumRange(s, mid + 1, j)

RECURSIVE MinRange(_, _, _)
MinRange(s, i, j) ==
    IF i >= j THEN s[j]
    ELSE LET mid == (i + j) \div 2
         IN  Min2(MinRange(s, i, mid), MinRange(s, mid + 1, j))

RECURSIVE MaxRange(_, _, _)
MaxRange(s, i, j) ==
    IF i >= j THEN s[j]
    ELSE LET mid == (i + j) \div 2
         IN  Max2(MaxRange(s, i, mid), MaxRange(s, mid + 1, j))

\* Python's s[-k:] for 0 < k
LastK(s, k) == IF Len(s) <= k THEN s ELSE SubSeq(s, Len(s) - k + 1, Len(s))

\* Python's s[:i] for 0 <= i
Prefix(s, i) == SubSeq(s, 1, Min2(i, Len(s)))

----------------------------------------------------------------------------
(* calculate_ema, calculate_rsi, calculate_price_position *)

\* statistics.mean of the closes s[i..j] (cents), as a working-scale number.
MeanWork(s, i, j) == RoundDiv(SumRange(s, i, j) * WorkPerCent, j - i + 1)

\* One step of the loop: ema = price*k + ema*(1-k), k = 2/(period+1).
EmaStep(price, period, ema) ==
    RoundDiv(2 * price * WorkPerCent + (period - 1) * ema, period + 1)

\* for price in prices[i..j]: the steps in order, the range halved at each
\* level.
RECURSIVE EmaLoop(_, _, _, _, _)
EmaLoop(prices, period, i, j, ema) ==
    IF i > j THEN ema
    ELSE IF i = j THEN EmaStep(prices[i], period, ema)
    ELSE LET mid  == (i + j) \div 2
             half == EmaLoop(prices, period, i, mid, ema)
         IN  \* the test has TLC compute the first half before the second
             IF half \in Int THEN EmaLoop(prices, period, mid + 1, j, half)
             ELSE half

calculate_ema(prices, period) ==
    IF Len(prices) < period THEN 0
    ELSE EmaLoop(prices, period, period + 1, Len(prices),
                 MeanWork(prices, 1, period))

\* gains[i], losses[i] for the change prices[i+1] - prices[i]
Gain(prices, i) ==
    LET change == prices[i + 1] - prices[i]
    IN  IF change > 0 THEN change ELSE 0

Loss(prices, i) ==
    LET change == prices[i + 1] - prices[i]
    IN  IF change > 0 THEN 0 ELSE Abs(change)

RECURSIVE SumGains(_, _, _)
SumGains(prices, i, j) ==
    IF i > j THEN 0 ELSE Gain(prices, j) + SumGains(prices, i, j - 1)

RECURSIVE SumLosses(_, _, _)
SumLosses(prices, i, j) ==
    IF i > j THEN 0 ELSE Loss(prices, j) + SumLosses(prices, i, j - 1)

\* The value returned when avg_loss == 0.
RsiNoLoss == 100 * PctWork

\* The value returned when there are too few prices.
RsiNeutral == 50 * PctWork

\* A variant that weighs the gains where the code weighs the losses.
RsiValueSwapped(g, l) == 100 * PctWork - RoundQ(100 * g, g + l, PctDigits)

\* rs = avg_gain / avg_loss; rsi = 100 - 100 / (1 + rs), for the sums g and l
\* of the last `period` gains and losses (l > 0): 100 - 100*l/(g+l).
RsiValue(g, l) == 100 * PctWork - RoundQ(100 * l, g + l, PctDigits)

\* A variant that reports the neutral value when nothing was gained or lost.
calculate_rsi_flat_neutral(prices, period) ==
    IF Len(prices) < period + 1 THEN RsiNeutral
    ELSE LET n == Len(prices) - 1
             g == SumGains(prices, n - period + 1, n)
             l == SumLosses(prices, n - period + 1, n)
         IN  IF g = 0 /\ l = 0 THEN RsiNeutral
             ELSE IF l = 0 THEN RsiNoLoss
             ELSE RsiValue(g, l)

\* Returns a percentage in working steps.
calculate_rsi(prices, period) ==
    IF Len(prices) < period + 1 THEN RsiNeutral
    ELSE LET n == Len(prices) - 1      \* len(gains) = len(losses)
         IN  IF n < period THEN RsiNeutral
             ELSE LET g == SumGains(prices, n - period + 1, n)
                      l == SumLosses(prices, n - period + 1, n)
                  IN  IF l = 0 THEN RsiNoLoss ELSE RsiValue(g, l)

\* A variant that reads an absent current price as the price 0.
calculate_price_position_null_as_zero(current_price, moving_average) ==
    IF ~Truthy(moving_average) THEN 0
    ELSE LET price == IF current_price = None THEN 0 ELSE Val(current_price)
         IN  RoundQ(100 * (price * WorkPerCent - Val(moving_average)),
                    Val(moving_average), PctDigits)

\* current_price: optional cents (Stock.current_price); moving_average:
\* optional working-scale number.  Returns a percentage in working steps.
calculate_price_position(current_price, moving_average) ==
    IF ~Truthy(current_price) \/ ~Truthy(moving_average) THEN 0
    ELSE RoundQ(100 * (Val(current_price) * WorkPerCent - Val(moving_average)),
                Val(moving_average), PctDigits)

----------------------------------------------------------------------------
(* Rows *)

\* The nullable fields of TechnicalIndicators, by unit.
PriceFields ==
    {"sma_20", "sma_50", "sma_200", "ema_12", "ema_26", "ema_200",
     "macd_line", "macd_signal", "macd_histogram",
     "bb_upper", "bb_middle", "bb_lower", "bb_width",
     "support_level", "resistance_level"}

PctFields ==
    {"rsi_14", "trend_strength", "price_vs_sma20", "price_vs_sma50",
     "price_vs_sma200", "volume_ratio", "signal_strength"}

PlainFields == {"ema_200_direction", "sma_200_direction", "volume_sma_20"}

TextFields == {"trend_direction", "overall_signal"}

TIFields == PriceFields \cup PctFields \cup PlainFields \cup TextFields

\* The row TechnicalIndicators.objects.get_or_create(stock=stock) creates:
\* every nullable field NULL, the two labels at their defaults.
NewIndicators ==
    [sma_20 |-> None,
     sma_50 |-> None,
     sma_200 |-> None,
     ema_12 |-> None,
     ema_26 |-> None,
     ema_200 |-> None,
     ema_200_direction |-> None,
     sma_200_direction |-> None,
     macd_line |-> None,
     macd_signal |-> None,
     macd_histogram |-> None,
     rsi_14 |-> None,
     bb_upper |-> None,
     bb_middle |-> None,
     bb_lower |-> None,
     bb_width |-> None,
     trend_direction |-> "neutral",
     trend_strength |-> None,
     price_vs_sma20 |-> None,
     price_vs_sma50 |-> None,
     price_vs_sma200 |-> None,
     support_level |-> None,
     resistance_level |-> None,
     volume_sma_20 |-> None,
     volume_ratio |-> None,
     overall_signal |-> "hold",
     signal_strength |-> None]

\* A stored row read into memory: the Decimal a field holds, in working steps.
LoadPrice(v) ==
    IF v = None THEN None ELSE Some(Val(v) * (WorkPerCent \div StoredPerCent))

LoadPct(v) ==
    IF v = None THEN None ELSE Some(Val(v) * (PctWork \div PctStored))

Load(row) ==
    [sma_20 |-> LoadPrice(row.sma_20),
     sma_50 |-> LoadPrice(row.sma_50),
     sma_200 |-> LoadPrice(row.sma_200),
     ema_12 |-> LoadPrice(row.ema_12),
     ema_26 |-> LoadPrice(row.ema_26),
     ema_200 |-> LoadPrice(row.ema_200),
     ema_200_direction |-> row.ema_200_direction,
     sma_200_direction |-> row.sma_200_direction,
     macd_line |-> LoadPrice(row.macd_line),
     macd_signal |-> LoadPrice(row.macd_signal),
     macd_histogram |-> LoadPrice(row.macd_histogram),
     rsi_14 |-> LoadPct(row.rsi_14),
     bb_upper |-> LoadPrice(row.bb_upper),
     bb_middle |-> LoadPrice(row.bb_middle),
     bb_lower |-> LoadPrice(row.bb_lower),
     bb_width |-> LoadPrice(row.bb_width),
     trend_direction |-> row.trend_direction,
     trend_strength |-> LoadPct(row.trend_strength),
     price_vs_sma20 |-> LoadPct(row.price_vs_sma20),
     price_vs_sma50 |-> LoadPct(row.price_vs_sma50),
     price_vs_sma200 |-> LoadPct(row.price_vs_sma200),
     support_level |-> LoadPrice(row.support_level),
     resistance_level |-> LoadPrice(row.resistance_level),
     volume_sma_20 |-> row.volume_sma_20,
     volume_ratio |-> LoadPct(row.volume_ratio),
     overall_signal |-> row.overall_signal,
     signal_strength |-> LoadPct(row.signal_strength)]

\* What save() writes for an in-memory value: rounded to the field's
\* decimal places.
StorePrice(v) ==
    IF v = None THEN None
    ELSE Some(RoundDiv(Val(v), WorkPerCent \div StoredPerCent))

StorePct(v) ==
    IF v = None THEN None ELSE Some(RoundDiv(Val(v), PctWork \div PctStored))

\* The row save() writes for the in-memory record `row`.
Quantize(row) ==
    [sma_20 |-> StorePrice(row.sma_20),
     sma_50 |-> StorePrice(row.sma_50),
     sma_200 |-> StorePrice(row.sma_200),
     ema_12 |-> StorePrice(row.ema_12),
     ema_26 |-> StorePrice(row.ema_26),
     ema_200 |-> StorePrice(row.ema_200),
     ema_200_direction |-> row.ema_200_direction,
     sma_200_direction |-> row.sma_200_direction,
     macd_line |-> StorePrice(row.macd_line),
     macd_signal |-> StorePrice(row.macd_signal),
     macd_histogram |-> StorePrice(row.macd_histogram),
     rsi_14 |-> StorePct(row.rsi_14),
     bb_upper |-> StorePrice(row.bb_upper),
     bb_middle |-> StorePrice(row.bb_middle),
     bb_lower |-> StorePrice(row.bb_lower),
     bb_width |-> StorePrice(row.bb_width),
     trend_direction |-> row.trend_direction,
     trend_strength |-> StorePct(row.trend_strength),
     price_vs_sma20 |-> StorePct(row.price_vs_sma20),
     price_vs_sma50 |-> StorePct(row.price_vs_sma50),
     price_vs_sma200 |-> StorePct(row.price_vs_sma200),
     support_level |-> StorePrice(row.support_level),
     resistance_level |-> StorePrice(row.resistance_level),
     volume_sma_20 |-> row.volume_sma_20,
     volume_ratio |-> StorePct(row.volume_ratio),
     overall_signal |-> row.overall_signal,
     signal_strength |-> StorePct(row.signal_strength)]

\* max_digits=5, decimal_places=2: a percentage field holds |v| < 1000.00;
\* a larger value makes save() raise.
PctFieldLimit == 1000 * PctStored

FitsFields(row) ==
    \A f \in PctFields : row[f] # None => Abs(Val(row[f])) < PctFieldLimit

----------------------------------------------------------------------------
(* analyze_trend and calculate_overall_signal *)

\* A variant whose strong strengths are not capped at 100.
TrendLabelUncapped(trend_score) ==
    IF trend_score >= 3
    THEN [direction |-> "strong_bullish", strength |-> Abs(trend_score) * 20]
    ELSE IF trend_score >= 1
    THEN [direction |-> "bullish", strength |-> Abs(trend_score) * 15]
    ELSE IF trend_score <= -3
    THEN [direction |-> "strong_bearish", strength |-> Abs(trend_score) * 20]
    ELSE IF trend_score <= -1
    THEN [direction |-> "bearish", strength |-> Abs(trend_score) * 15]
    ELSE [direction |-> "neutral", strength |-> 0]

\* if trend_score >= 3 ... elif ... else, as (direction, strength)
TrendLabel(trend_score) ==
    IF trend_score >= 3
    THEN [direction |-> "strong_bullish", strength |-> Min2(100, Abs(trend_score) * 20)]
    ELSE IF trend_score >= 1
    THEN [direction |-> "bullish", strength |-> Abs(trend_score) * 15]
    ELSE IF trend_score <= -3
    THEN [direction |-> "strong_bearish", strength |-> Min2(100, Abs(trend_score) * 20)]
    ELSE IF trend_score <= -1
    THEN [direction |-> "bearish", strength |-> Abs(trend_score) * 15]
    ELSE [direction |-> "neutral", strength |-> 0]

\* The four contributions to trend_score, in the order of the code.
TrendScoreMA(ti) ==
    (IF Truthy(ti.sma_20) /\ Truthy(ti.sma_50)
     THEN IF Val(ti.sma_20) > Val(ti.sma_50) THEN 1 ELSE -1
     ELSE 0)
    +
    (IF Truthy(ti.sma_50) /\ Truthy(ti.sma_200)
     THEN IF Val(ti.sma_50) > Val(ti.sma_200) THEN 1 ELSE -1
     ELSE 0)

\* A variant that counts a close equal to SMA(20) as above it.
TrendScorePriceTieUp(closes, ti) ==
    IF Truthy(ti.sma_20)
    THEN IF closes[Len(closes)] * WorkPerCent >= Val(ti.sma_20) THEN 1 ELSE -1
    ELSE 0

TrendScorePrice(closes, ti) ==
    IF Truthy(ti.sma_20)
    THEN IF closes[Len(closes)] * WorkPerCent > Val(ti.sma_20) THEN 1 ELSE -1
    ELSE 0

\* recent_change = (closes[-1] - closes[-5]) / closes[-5] * 100, compared
\* with +2 and -2 (closes[-5] > 0): the comparison is made exactly.
TrendScoreMomentum(closes) ==
    LET c1 == closes[Len(closes)]
        c5 == closes[Len(closes) - 4]
    IN  IF 100 * (c1 - c5) > 2 * c5 THEN 1
        ELSE IF 100 * (c1 - c5) < -2 * c5 THEN -1
        ELSE 0

\* The division by closes[-5] raises ZeroDivisionError when that close is 0.
TrendRaises(closes) ==
    Len(closes) >= 20 /\ Len(closes) >= 5 /\ closes[Len(closes) - 4] = 0

TrendScore(closes, ti) ==
    TrendScoreMA(ti) + TrendScorePrice(closes, ti)
    + (IF Len(closes) >= 5 THEN TrendScoreMomentum(closes) ELSE 0)

\* Defined when ~TrendRaises(closes).
analyze_trend(closes, ti) ==
    IF Len(closes) < 20 THEN [direction |-> "neutral", strength |-> 0]
    ELSE TrendLabel(TrendScore(closes, ti))

\* A variant that calls a score of 1 a buy and a score of -1 a sell.
SignalLabelFromOne(signal_score) ==
    IF signal_score >= 4
    THEN [signal |-> "strong_buy", strength |-> Min2(100, Abs(signal_score) * 15)]
    ELSE IF signal_score >= 1
    THEN [signal |-> "buy", strength |-> Abs(signal_score) * 12]
    ELSE IF signal_score <= -4
    THEN [signal |-> "strong_sell", strength |-> Min2(100, Abs(signal_score) * 15)]
    ELSE IF signal_score <= -1
    THEN [signal |-> "sell", strength |-> Abs(signal_score) * 12]
    ELSE [signal |-> "hold", strength |-> 50 + Abs(signal_score) * 5]

\* A variant that forgets abs(): the strength carries the sign of the score.
SignalLabelSigned(signal_score) ==
    IF signal_score >= 4
    THEN [signal |-> "strong_buy", strength |-> Min2(100, signal_score * 15)]
    ELSE IF signal_score >= 2
    THEN [signal |-> "buy", strength |-> signal_score * 12]
    ELSE IF signal_score <= -4
    THEN [signal |-> "strong_sell", strength |-> Min2(100, signal_score * 15)]
    ELSE IF signal_score <= -2
    THEN [signal |-> "sell", strength |-> signal_score * 12]
    ELSE [signal |-> "hold", strength |-> 50 + signal_score * 5]

\* "Determine signal": if signal_score >= 4 ... elif ... else
SignalLabel(signal_score) ==
    IF signal_score >= 4
    THEN [signal |-> "strong_buy", strength |-> Min2(100, Abs(signal_score) * 15)]
    ELSE IF signal_score >= 2
    THEN [signal |-> "buy", strength |-> Abs(signal_score) * 12]
    ELSE IF signal_score <= -4
    THEN [signal |-> "strong_sell", strength |-> Min2(100, Abs(signal_score) * 15)]
    ELSE IF signal_score <= -2
    THEN [signal |-> "sell", strength |-> Abs(signal_score) * 12]
    ELSE [signal |-> "hold", strength |-> 50 + Abs(signal_score) * 5]

SignalScoreRsi(ti) ==
    IF Truthy(ti.rsi_14)
    THEN LET rsi == Val(ti.rsi_14)
         IN  IF rsi < 30 * PctWork THEN 2
             ELSE IF rsi < 40 * PctWork THEN 1
             ELSE IF rsi > 70 * PctWork THEN -2
             ELSE IF rsi > 60 * PctWork THEN -1
             ELSE 0
    ELSE 0

SignalScoreMacd(ti) ==
    IF Truthy(ti.macd_line) /\ Truthy(ti.macd_signal)
    THEN IF Val(ti.macd_line) > Val(ti.macd_signal) THEN 1 ELSE -1
    ELSE 0

\* A variant that never takes the bearish branch.
SignalScoreTrendBullishOnly(ti) ==
    IF ti.trend_direction = "strong_bullish" THEN 2
    ELSE IF ti.trend_direction = "bullish" THEN 1
    ELSE 0

SignalScoreTrend(ti) ==
    IF ti.trend_direction = "strong_bullish" THEN 2
    ELSE IF ti.trend_direction = "bullish" THEN 1
    ELSE IF ti.trend_direction = "strong_bearish" THEN -2
    ELSE IF ti.trend_direction = "bearish" THEN -1
    ELSE 0

SignalScorePosition(ti) ==
    IF Truthy(ti.price_vs_sma20)
    THEN IF Val(ti.price_vs_sma20) > 5 * PctWork THEN 1
         ELSE IF Val(ti.price_vs_sma20) < -5 * PctWork THEN -1
         ELSE 0
    ELSE 0

SignalScore(ti) ==
    SignalScoreRsi(ti) + SignalScoreMacd(ti) + SignalScoreTrend(ti)
    + SignalScorePosition(ti)

calculate_overall_signal(ti) == SignalLabel(SignalScore(ti))

----------------------------------------------------------------------------
(* The loop body of Command.handle: one security's indicators *)

\* if len(price_data) < 20: continue
MinHistory == 20

\* StockPrice.objects.filter(stock=stock).order_by('-date')[:200]
HistoryLimit == 200

\* A variant without the cap: every stored bar.
PriceDataUncapped(history) == history

\* The bars the engine works on: the most recent HistoryLimit, oldest first.
PriceData(history) == LastK(history, HistoryLimit)

Closes(price_data) == [i \in 1..Len(price_data) |-> price_data[i].close]

Highs(price_data) == [i \in 1..Len(price_data) |-> price_data[i].high]

Lows(price_data) == [i \in 1..Len(price_data) |-> price_data[i].low]

Volumes(price_data) == [i \in 1..Len(price_data) |-> price_data[i].volume]

\* A variant that averages the first k closes, closes[:k].
SmaFirst(closes, k) == MeanWork(closes, 1, k)

\* statistics.mean(closes[-k:]) for k <= len(closes)
SmaLast(closes, k) == MeanWork(closes, Len(closes) - k + 1, Len(closes))

\* "Calculate Moving Averages"
WithSma(ti, closes, st) ==
    LET n  == Len(closes)
        t1 == IF n >= 20
              THEN LET sma == Some(SmaLast(closes, 20))
                   IN  [ti EXCEPT !.sma_20 = sma,
                                  !.price_vs_sma20 =
                                     Some(calculate_price_position(st.current_price, sma))]
              ELSE ti
        t2 == IF n >= 50
              THEN LET sma == Some(SmaLast(closes, 50))
                   IN  [t1 EXCEPT !.sma_50 = sma,
                                  !.price_vs_sma50 =
                                     Some(calculate_price_position(st.current_price, sma))]
              ELSE t1
    IN  IF n >= 200
        THEN LET sma == Some(SmaLast(closes, 200))
             IN  [t2 EXCEPT !.sma_200 = sma,
                            !.price_vs_sma200 =
                               Some(calculate_price_position(st.current_price, sma))]
        ELSE t2

\* A variant that continues EMA(12) from the stored value, one step a run.
WithEmaIncremental(ti, closes) ==
    LET t1 == IF Len(closes) >= 12
              THEN [ti EXCEPT !.ema_12 =
                       IF ti.ema_12 = None
                       THEN Some(calculate_ema(closes, 12))
                       ELSE Some(EmaStep(closes[Len(closes)], 12,
                                         Val(ti.ema_12)))]
              ELSE ti
    IN  IF Len(closes) >= 26
        THEN [t1 EXCEPT !.ema_26 = Some(calculate_ema(closes, 26))]
        ELSE t1

\* "Calculate EMAs"
WithEma(ti, closes) ==
    LET t1 == IF Len(closes) >= 12
              THEN [ti EXCEPT !.ema_12 = Some(calculate_ema(closes, 12))]
              ELSE ti
    IN  IF Len(closes) >= 26
        THEN [t1 EXCEPT !.ema_26 = Some(calculate_ema(closes, 26))]
        ELSE t1

Direction(current, reference) ==
    IF current > reference THEN "up"
    ELSE IF current < reference THEN "down"
    ELSE "sideways"

\* "Calculate 200 EMA and its direction".  price_vs_ema200, assigned at the
\* end of this block, is no field of the model: save() does not write it.
WithEma200(ti, closes) ==
    IF Len(closes) >= 200
    THEN LET current_ema_200  == calculate_ema(closes, 200)
             previous_ema_200 ==
                 IF Len(closes) > 200
                 THEN Some(calculate_ema(Prefix(closes, Len(closes) - 1), 200))
                 ELSE None
             direction ==
                 IF Truthy(previous_ema_200)
                 THEN Direction(current_ema_200, Val(previous_ema_200))
                 ELSE IF Truthy(ti.sma_200)
                 THEN Direction(current_ema_200, Val(ti.sma_200))
                 ELSE "neutral"
         IN  [ti EXCEPT !.ema_200 = Some(current_ema_200),
                        !.ema_200_direction = Some(direction)]
    ELSE ti

\* macd_values for i in range(lo, hi + 1), summed: each value is
\* calculate_ema(closes[:i], 12) - calculate_ema(closes[:i], 26).  The EMA of
\* closes[:i + 1] is one EmaStep from the EMA of closes[:i], so the sum
\* carries the two averages (ema_12_hist, ema_26_hist) from i to i + 1.
RECURSIVE MacdFrom(_, _, _, _, _)
MacdFrom(closes, i, hi, ema_12_hist, ema_26_hist) ==
    IF i > hi THEN 0
    ELSE (ema_12_hist - ema_26_hist)
         + (IF i = hi THEN 0
            ELSE MacdFrom(closes, i + 1, hi,
                          EmaStep(closes[i + 1], 12, ema_12_hist),
                          EmaStep(closes[i + 1], 26, ema_26_hist)))

\* A variant that takes the values one index later, today's included.
MacdSumWithToday(closes, lo, hi) ==
    IF lo > hi THEN 0
    ELSE MacdFrom(closes, lo + 1, hi + 1,
                  calculate_ema(Prefix(closes, lo + 1), 12),
                  calculate_ema(Prefix(closes, lo + 1), 26))

MacdSum(closes, lo, hi) ==
    IF lo > hi THEN 0
    ELSE MacdFrom(closes, lo, hi,
                  calculate_ema(Prefix(closes, lo), 12),
                  calculate_ema(Prefix(closes, lo), 26))

\* "Calculate MACD"
WithMacd(ti, closes) ==
    IF Truthy(ti.ema_12) /\ Truthy(ti.ema_26)
    THEN LET line == Val(ti.ema_12) - Val(ti.ema_26)
             t1   == [ti EXCEPT !.macd_line = Some(line)]
             lo   == Max2(26, Len(closes) - 9)
             hi   == Len(closes) - 1
         IN  IF Len(closes) >= 35 /\ lo <= hi
             THEN LET signal == RoundDiv(MacdSum(closes, lo, hi), hi - lo + 1)
                  IN  [t1 EXCEPT !.macd_signal = Some(signal),
                                 !.macd_histogram = Some(line - signal)]
             ELSE t1
    ELSE ti

\* "Calculate RSI"
WithRsi(ti, closes) ==
    IF Len(closes) >= 15
    THEN [ti EXCEPT !.rsi_14 = Some(calculate_rsi(closes, 14))]
    ELSE ti

RECURSIVE SumSquares(_, _, _, _)
SumSquares(s, base, i, j) ==
    IF i > j THEN 0
    ELSE IF i = j THEN (s[i] - base) * (s[i] - base)
    ELSE LET mid == (i + j) \div 2
         IN  SumSquares(s, base, i, mid) + SumSquares(s, base, mid + 1, j)

\* statistics.stdev(closes[-k:]): the sample standard deviation, in working
\* steps, taken to a tenth of a cent.  With d = close - min(closes[-k:]),
\* variance = (k * sum(d^2) - sum(d)^2) / (k * (k - 1)).
StdevLast(closes, k) ==
    LET n    == Len(closes)
        base == MinRange(closes, n - k + 1, n)
        s1   == SumRange(closes, n - k + 1, n) - k * base
        s2   == SumSquares(closes, base, n - k + 1, n)
    IN  ISqrt(DivDigits(k * s2 - s1 * s1, k * (k - 1), 2)) * (WorkPerCent \div 10)

\* "Calculate Bollinger Bands"
WithBollinger(ti, closes) ==
    IF Len(closes) >= 20
    THEN LET sma     == SmaLast(closes, 20)
             std_dev == StdevLast(closes, 20)
             upper   == sma + 2 * std_dev
             lower   == sma - 2 * std_dev
         IN  [ti EXCEPT !.bb_middle = Some(sma),
                        !.bb_upper = Some(upper),
                        !.bb_lower = Some(lower),
                        !.bb_width = Some(upper - lower)]
    ELSE ti

\* "Calculate Support and Resistance levels"
WithLevels(ti, highs, lows) ==
    IF Len(lows) >= 20 /\ Len(highs) >= 20
    THEN [ti EXCEPT
            !.support_level =
                Some(MinRange(lows, Len(lows) - 19, Len(lows)) * WorkPerCent),
            !.resistance_level =
                Some(MaxRange(highs, Len(highs) - 19, Len(highs)) * WorkPerCent)]
    ELSE ti

\* "Calculate Volume indicators"
WithVolume(ti, volumes, st) ==
    IF Len(volumes) >= 20
    THEN LET volume_sma_20 ==
                 SumRange(volumes, Len(volumes) - 19, Len(volumes)) \div 20
             t1 == [ti EXCEPT !.volume_sma_20 = Some(volume_sma_20)]
         IN  IF Truthy(st.volume) /\ volume_sma_20 > 0
             THEN [t1 EXCEPT !.volume_ratio =
                                Some(RoundQ(Val(st.volume), volume_sma_20, PctDigits))]
             ELSE t1
    ELSE ti

\* Everything before "Determine Trend Direction and Strength".
Indicators(ti, price_data, st) ==
    LET closes == Closes(price_data)
    IN  WithVolume(
          WithLevels(
            WithBollinger(
              WithRsi(
                WithMacd(
                  WithEma200(
                    WithEma(
                      WithSma(ti, closes, st),
                      closes),
                    closes),
                  closes),
                closes),
              closes),
            Highs(price_data), Lows(price_data)),
          Volumes(price_data), st)

\* Whether the loop body raises before save(): the unguarded division of
\* analyze_trend.
Raises(price_data) == TrendRaises(Closes(price_data))

\* The in-memory record at save(), from the record get_or_create returned.
Analyzed(ti, price_data, st) ==
    LET closes     == Closes(price_data)
        t1         == Indicators(ti, price_data, st)
        trend_data == analyze_trend(closes, t1)
        t2         == [t1 EXCEPT !.trend_direction = trend_data.direction,
                                 !.trend_strength =
                                    Some(trend_data.strength * PctWork)]
        signal_data == calculate_overall_signal(t2)
    IN  [t2 EXCEPT !.overall_signal = signal_data.signal,
                   !.signal_strength = Some(signal_data.strength * PctWork)]

----------------------------------------------------------------------------
(* State *)

VARIABLES
    stock,      \* Stock rows: symbol -> None or <<[current_price, volume]>>
    bars,       \* StockPrice rows: symbol -> the bars, oldest first
    snap,       \* TechnicalIndicators rows: symbol -> None or <<stored row>>
    ti_rows,    \* per security: how many TechnicalIndicators rows it has
    pc,         \* the batch command: "idle", "running", "done" or "failed"
    stocks,     \* the evaluated queryset Stock.objects.all() of the run
    todo,       \* the securities the for loop has not reached yet
    outcome,    \* what the run did for each security
    before,     \* the snapshots when the run started
    reported,   \* the count of the run's final line, once written
    runs,       \* batch runs started
    commands,   \* commands and admin operations started, the runs included
    last_save,  \* per security: the row of the latest save, while its bars,
                \* price and volume are what that save read; else None
    prev_save,  \* per security: the row of the save before it, likewise
    fn,         \* a function applied on its own: its name, or "none"
    arg,        \* ... its argument
    ret,        \* ... its result
    run_pc,     \* two overlapping runs at one security: where each one is
    run_data,   \* ... the price_data each one read
    run_row,    \* ... the row get_or_create gave each one
    last_saver, \* ... the run whose save() came last, 0 before any
    appended,   \* ... the bars appended since the runs began
    order,      \* a PreMarketStopLoss row
    trades,     \* the Trade rows, oldest first
    position,   \* the user's Portfolio row for the stock: None or <<row>>
    stop_loss   \* a StopLossOrder row of the user for the stock

vars == <<stock, bars, snap, ti_rows, pc, stocks, todo, outcome, before, reported,
          runs, commands, last_save, prev_save, fn, arg, ret,
          run_pc, run_data, run_row, last_saver, appended,
          order, trades, position, stop_loss>>

db_vars == <<stock, bars, snap, ti_rows>>

run_vars == <<pc, stocks, todo, outcome, before, reported, runs>>

hist_vars == <<last_save, prev_save>>

fn_vars == <<fn, arg, ret>>

race_vars == <<run_pc, run_data, run_row, last_saver, appended>>

app_vars == <<order, trades, position, stop_loss>>

----------------------------------------------------------------------------
(* Bounds and inputs *)

NumStocks == 2

\* Batch runs, update_msf_signals runs and admin deletions, all together.
MaxCommands == 3

\* high = close + HighSpread, low = close - LowSpread (not below 0)
HighSpread == 30

LowSpread == 20

\* The volume of every bar of a history with volume, and Stock.volume.
BarVolume == 1000

StockVolume == 1500

\* Stock.Meta.ordering = ['symbol']: the run visits the symbols in order.
Symbols == 1..NumStocks

\* update_msf_signals works on the symbol 'MSF'.
MSF == 1

\* The closes (cents) of a history: n bars of a shape.
ShapeClose(shape, n, i) ==
    CASE shape = "flat"   -> 1000
      [] shape = "rise"   -> 10000 + 100 * (i - 1)
      [] shape = "fall"   -> 1000 + 10 * (n - i)
      [] shape = "zigzag" -> 1000 + (IF i % 3 = 0 THEN 0 ELSE 40 * (i % 3))
      [] shape = "dip"    -> IF i = n - 4 THEN 0 ELSE 1000

MkBar(close, volume) ==
    [close |-> close, high |-> close + HighSpread,
     low |-> Max2(0, close - LowSpread), volume |-> volume]

MkHistory(h) ==
    [i \in 1..h.n |-> MkBar(ShapeClose(h.shape, h.n, i), h.volume)]

\* The histories a security may start with.
Histories ==
    {[n |-> 0, shape |-> "flat", volume |-> BarVolume],
     [n |-> 12, shape |-> "rise", volume |-> BarVolume],
     [n |-> 20, shape |-> "flat", volume |-> 0],
     [n |-> 20, shape |-> "fall", volume |-> BarVolume],
     [n |-> 20, shape |-> "dip", volume |-> BarVolume],
     [n |-> 25, shape |-> "rise", volume |-> BarVolume],
     [n |-> 35, shape |-> "zigzag", volume |-> BarVolume],
     [n |-> 50, shape |-> "fall", volume |-> BarVolume],
     [n |-> 60, shape |-> "flat", volume |-> BarVolume],
     [n |-> 200, shape |-> "flat", volume |-> BarVolume],
     [n |-> 201, shape |-> "rise", volume |-> BarVolume]}

\* The history of each security after MSF; its price is a tenth above its
\* last close and its Stock.volume is null.
OtherHistory == [n |-> 25, shape |-> "rise", volume |-> BarVolume]

\* The current prices a security with history h may have: none, the last
\* close (populate_stocks sets it so), a tenth above it.
LastClose(h) == IF h.n = 0 THEN 1000 ELSE ShapeClose(h.shape, h.n, h.n)

Prices(h) == {None, Some(LastClose(h)), Some(LastClose(h) + LastClose(h) \div 10)}

StockVolumes == {None, Some(StockVolume)}

\* The inputs of calculate_rsi applied on its own: n closes that start at
\* RsiBase and then rise by `up` for `run` days and fall by `down` for one.
MaxRsiLen == 22

MaxStep == 2

MaxUpRun == 2

RsiBase == MaxRsiLen * MaxStep + 100

RsiSeries(n, up, down, run) ==
    [i \in 1..n |->
        RsiBase + up * ((i - 1) - (i - 1) \div (run + 1))
                - down * ((i - 1) \div (run + 1))]

RsiInputs ==
    {RsiSeries(n, up, down, run) :
        n \in 0..MaxRsiLen, up \in 0..MaxStep, down \in 0..MaxStep,
        run \in 0..MaxUpRun}

----------------------------------------------------------------------------
(* Initial states *)

NoFunction == fn = "none" /\ arg = <<>> /\ ret = None

\* The order of the web application: quantity, stop price (cents) and
\* max_slippage_percent (hundredths of a percent; the default is 0.5).
OrderQuantity == 2

StopPrice == 1000

MaxSlippage == 50

\* The overlapping runs of the last section.
Runs == {1, 2}

NoRace ==
    /\ run_pc = [p \in Runs |-> "start"]
    /\ run_data = [p \in Runs |-> <<>>]
    /\ run_row = [p \in Runs |-> None]
    /\ last_saver = 0
    /\ appended = 0

\* The rows of the web application in the specifications that leave them
\* alone: a pending order as premarket_stop_loss_setup creates it, no trade,
\* no position, an active stop-loss order.
NewOrder(trigger_condition, status, stop_price) ==
    [status |-> status, trigger_condition |-> trigger_condition,
     quantity |-> OrderQuantity, stop_price |-> stop_price,
     max_slippage_percent |-> MaxSlippage,
     executed_price |-> None, executed_quantity |-> None,
     slippage |-> None, related_trade |-> None]

NoApp ==
    /\ order = NewOrder("market_open", "pending", StopPrice)
    /\ trades = <<>>
    /\ position = None
    /\ stop_loss = [status |-> "active", quantity |-> OrderQuantity]

RunIdle ==
    /\ pc = "idle"
    /\ stocks = <<>>
    /\ todo = <<>>
    /\ outcome = [s \in Symbols |-> "none"]
    /\ before = [s \in Symbols |-> None]
    /\ reported = None
    /\ runs = 0
    /\ commands = 0
    /\ last_save = [s \in Symbols |-> None]
    /\ prev_save = [s \in Symbols |-> None]

\* MSF may not exist yet; the other securities exist.  No snapshot exists.
Init ==
    /\ \E h \in Histories, present \in BOOLEAN :
          /\ ~present => h.n = 0
          /\ bars = [s \in Symbols |->
                        MkHistory(IF s = MSF THEN h ELSE OtherHistory)]
          /\ \E price \in Prices(h), volume \in StockVolumes :
                stock = [s \in Symbols |->
                           IF s # MSF
                           THEN Some([current_price |->
                                        Some(LastClose(OtherHistory)
                                             + LastClose(OtherHistory) \div 10),
                                      volume |-> None])
                           ELSE IF present
                           THEN Some([current_price |-> price,
                                      volume |-> volume])
                           ELSE None]
    /\ snap = [s \in Symbols |-> None]
    /\ ti_rows = [s \in Symbols |-> 0]
    /\ RunIdle
    /\ NoFunction
    /\ NoRace
    /\ NoApp

----------------------------------------------------------------------------
(* calculate_technical_indicators: Command.handle *)

\* Stock.objects.all(), ordered by symbol
RECURSIVE AllStocksFrom(_)
AllStocksFrom(s) ==
    IF s > NumStocks THEN <<>>
    ELSE IF stock[s] = None THEN AllStocksFrom(s + 1)
    ELSE <<s>> \o AllStocksFrom(s + 1)

AllStocks == AllStocksFrom(1)

StartRun ==
    /\ pc # "running"
    /\ commands < MaxCommands
    /\ commands' = commands + 1
    /\ pc' = "running"
    /\ stocks' = AllStocks
    /\ todo' = AllStocks
    /\ outcome' = [s \in Symbols |-> "none"]
    /\ before' = snap
    /\ reported' = None
    /\ runs' = runs + 1
    /\ UNCHANGED <<db_vars, hist_vars, fn_vars, race_vars, app_vars>>

\* The security the loop is at.
Current == Head(todo)

InLoop == pc = "running" /\ todo # <<>>

\* A variant that asks for 12 bars, the least any indicator needs.
ShouldSkipBelow12(s) == Len(PriceData(bars[s])) < 12

\* if len(price_data) < 20: ... continue
ShouldSkip(s) == Len(PriceData(bars[s])) < MinHistory

\* A variant that inserts a row at every call, as objects.create would.
CreatesAlways(s) == 1

\* The rows get_or_create inserts: one when the security has none.
Creates(s) == IF snap[s] = None THEN 1 ELSE 0

\* The row counts after get_or_create(stock=s).
Inserted(s) == [ti_rows EXCEPT ![s] = @ + Creates(s)]

\* tech_indicators, created = TechnicalIndicators.objects.get_or_create(stock=stock)
GetOrCreate(s) == IF snap[s] = None THEN NewIndicators ELSE Val(snap[s])

\* The in-memory record of security s at save().
AtSave(s) == Analyzed(Load(GetOrCreate(s)), PriceData(bars[s]), Val(stock[s]))

\* A variant of the skip that empties the row of the skipped security.
SkipStockClears ==
    /\ InLoop
    /\ ShouldSkip(Current)
    /\ todo' = Tail(todo)
    /\ outcome' = [outcome EXCEPT ![Current] = "skipped"]
    /\ snap' = [snap EXCEPT ![Current] =
                   IF snap[Current] = None THEN None ELSE Some(NewIndicators)]
    /\ UNCHANGED <<stock, bars, ti_rows, pc, stocks, before, reported, runs, commands,
                   hist_vars, fn_vars, race_vars, app_vars>>

\* A variant in which get_or_create comes before the test of the length.
SkipStockCreates ==
    /\ InLoop
    /\ ShouldSkip(Current)
    /\ todo' = Tail(todo)
    /\ outcome' = [outcome EXCEPT ![Current] = "skipped"]
    /\ snap' = [snap EXCEPT ![Current] = Some(GetOrCreate(Current))]
    /\ ti_rows' = Inserted(Current)
    /\ UNCHANGED <<stock, bars, pc, stocks, before, reported, runs, commands,
                   hist_vars, fn_vars, race_vars, app_vars>>

SkipStock ==
    /\ InLoop
    /\ ShouldSkip(Current)
    /\ todo' = Tail(todo)
    /\ outcome' = [outcome EXCEPT ![Current] = "skipped"]
    /\ UNCHANGED <<db_vars, pc, stocks, before, reported, runs, commands,
                   hist_vars, fn_vars, race_vars, app_vars>>

\* An exception leaves handle(): the command ends, the row get_or_create
\* made stays.
Abort(s, why) ==
    /\ snap' = [snap EXCEPT ![s] = Some(GetOrCreate(s))]
    /\ ti_rows' = Inserted(s)
    /\ pc' = "failed"
    /\ outcome' = [outcome EXCEPT ![s] = why]
    /\ UNCHANGED <<stock, bars, stocks, todo, before, reported, runs, commands,
                   hist_vars, fn_vars, race_vars, app_vars>>

RaiseZeroDivision ==
    /\ InLoop
    /\ ~ShouldSkip(Current)
    /\ Raises(PriceData(bars[Current]))
    /\ Abort(Current, "zero_division")

\* tech_indicators.save() fails: the database refuses the write, or a
\* percentage does not fit its field.
SaveFails ==
    /\ InLoop
    /\ ~ShouldSkip(Current)
    /\ ~Raises(PriceData(bars[Current]))
    /\ Abort(Current, "save_error")

\* A variant that also sets the security's current price to its last close.
SaveIndicatorsSetsPrice ==
    /\ InLoop
    /\ ~ShouldSkip(Current)
    /\ ~Raises(PriceData(bars[Current]))
    /\ LET s   == Current
           row == Quantize(AtSave(s))
       IN  /\ FitsFields(row)
           /\ snap' = [snap EXCEPT ![s] = Some(row)]
           /\ ti_rows' = Inserted(s)
           /\ prev_save' = [prev_save EXCEPT ![s] = last_save[s]]
           /\ last_save' = [last_save EXCEPT ![s] = Some(row)]
           /\ outcome' = [outcome EXCEPT ![s] = "saved"]
           /\ stock' = [stock EXCEPT ![s] =
                           Some([current_price |->
                                     Some(bars[s][Len(bars[s])].close),
                                 volume |-> Val(stock[s]).volume])]
    /\ todo' = Tail(todo)
    /\ UNCHANGED <<bars, pc, stocks, before, reported, runs, commands,
                   fn_vars, race_vars, app_vars>>

SaveIndicators ==
    /\ InLoop
    /\ ~ShouldSkip(Current)
    /\ ~Raises(PriceData(bars[Current]))
    /\ LET s   == Current
           row == Quantize(AtSave(s))
       IN  /\ FitsFields(row)
           /\ snap' = [snap EXCEPT ![s] = Some(row)]
           /\ ti_rows' = Inserted(s)
           /\ prev_save' = [prev_save EXCEPT ![s] = last_save[s]]
           /\ last_save' = [last_save EXCEPT ![s] = Some(row)]
           /\ outcome' = [outcome EXCEPT ![s] = "saved"]
    /\ todo' = Tail(todo)
    /\ UNCHANGED <<stock, bars, pc, stocks, before, reported, runs, commands,
                   fn_vars, race_vars, app_vars>>

\* 'Successfully calculated technical indicators for {len(stocks)} stocks'
FinishRun ==
    /\ pc = "running"
    /\ todo = <<>>
    /\ pc' = "done"
    /\ reported' = Some(Len(stocks))
    /\ UNCHANGED <<db_vars, stocks, todo, outcome, before, runs, commands,
                   hist_vars, fn_vars, race_vars, app_vars>>

----------------------------------------------------------------------------
(* update_msf_signals: Command.handle *)

MsfPrice == 52772

MsfSma20 == 48306

MsfRsi == 7990

MsfVolumeRatio == 70

MsfTrendStrength == 7000

MsfSignalStrength == 7500

MsfSupport == 50201

MsfResistance == 53330

\* The record at save(): the fields the command assigns, on the record
\* get_or_create returned.
MsfIndicators(ti) ==
    [ti EXCEPT
        !.sma_20 = Some(MsfSma20 * WorkPerCent),
        !.rsi_14 = Some(MsfRsi * (PctWork \div PctStored)),
        !.price_vs_sma20 =
            Some(RoundQ(100 * (MsfPrice - MsfSma20), MsfSma20, PctDigits)),
        !.volume_ratio = Some(MsfVolumeRatio * (PctWork \div PctStored)),
        !.trend_direction = "bullish",
        !.trend_strength = Some(MsfTrendStrength * (PctWork \div PctStored)),
        !.overall_signal = "hold",
        !.signal_strength = Some(MsfSignalStrength * (PctWork \div PctStored)),
        !.support_level = Some(MsfSupport * WorkPerCent),
        !.resistance_level = Some(MsfResistance * WorkPerCent)]

UpdateMsfSignals ==
    /\ pc # "running"
    /\ commands < MaxCommands
    /\ commands' = commands + 1
    /\ stock' = [stock EXCEPT ![MSF] =
                    IF stock[MSF] = None
                    THEN Some([current_price |-> Some(MsfPrice), volume |-> None])
                    ELSE Some([Val(stock[MSF]) EXCEPT
                                  !.current_price = Some(MsfPrice)])]
    /\ snap' = [snap EXCEPT ![MSF] =
                   Some(Quantize(MsfIndicators(Load(GetOrCreate(MSF)))))]
    /\ ti_rows' = Inserted(MSF)
    /\ last_save' = [last_save EXCEPT ![MSF] = None]
    /\ prev_save' = [prev_save EXCEPT ![MSF] = None]
    /\ UNCHANGED <<bars, run_vars, fn_vars, race_vars, app_vars>>

----------------------------------------------------------------------------
(* admin: StockPriceAdmin, deleting the oldest bars of a security *)

KeepChoices == {12, 20}

DeleteOldBars ==
    /\ pc # "running"
    /\ commands < MaxCommands
    /\ \E s \in Symbols, keep \in KeepChoices :
          /\ Len(bars[s]) > keep
          /\ bars' = [bars EXCEPT ![s] = LastK(bars[s], keep)]
          /\ last_save' = [last_save EXCEPT ![s] = None]
          /\ prev_save' = [prev_save EXCEPT ![s] = None]
    /\ commands' = commands + 1
    /\ UNCHANGED <<stock, snap, ti_rows, run_vars, fn_vars, race_vars, app_vars>>

Next ==
    \/ StartRun
    \/ SkipStock
    \/ RaiseZeroDivision
    \/ SaveFails
    \/ SaveIndicators
    \/ FinishRun
    \/ UpdateMsfSignals
    \/ DeleteOldBars

Spec == Init /\ [][Next]_vars

----------------------------------------------------------------------------
(* calculate_rsi applied on its own *)

InitFn ==
    /\ stock = [s \in Symbols |-> None]
    /\ bars = [s \in Symbols |-> <<>>]
    /\ snap = [s \in Symbols |-> None]
    /\ ti_rows = [s \in Symbols |-> 0]
    /\ RunIdle
    /\ fn = "none"
    /\ arg \in RsiInputs
    /\ ret = None
    /\ NoRace
    /\ NoApp

ApplyRsi ==
    /\ fn = "none"
    /\ fn' = "calculate_rsi"
    /\ ret' = Some(calculate_rsi(arg, 14))
    /\ UNCHANGED <<db_vars, run_vars, commands, hist_vars, arg, race_vars, app_vars>>

NextFn == ApplyRsi

SpecFn == InitFn /\ [][NextFn]_vars

----------------------------------------------------------------------------
(* The label tables of analyze_trend and calculate_overall_signal applied on
   their own, to every score up to MaxScore either way *)

MaxScore == 20

Scores == (0 - MaxScore)..MaxScore

InitLabel ==
    /\ stock = [s \in Symbols |-> None]
    /\ bars = [s \in Symbols |-> <<>>]
    /\ snap = [s \in Symbols |-> None]
    /\ ti_rows = [s \in Symbols |-> 0]
    /\ RunIdle
    /\ fn = "none"
    /\ arg \in Scores
    /\ ret = None
    /\ NoRace
    /\ NoApp

ApplyTrendLabel ==
    /\ fn = "none"
    /\ fn' = "analyze_trend"
    /\ ret' = Some(TrendLabel(arg))
    /\ UNCHANGED <<db_vars, run_vars, commands, hist_vars, arg, race_vars, app_vars>>

ApplySignalLabel ==
    /\ fn = "none"
    /\ fn' = "calculate_overall_signal"
    /\ ret' = Some(SignalLabel(arg))
    /\ UNCHANGED <<db_vars, run_vars, commands, hist_vars, arg, race_vars, app_vars>>

NextLabel ==
    \/ ApplyTrendLabel
    \/ ApplySignalLabel

SpecLabel == InitLabel /\ [][NextLabel]_vars

----------------------------------------------------------------------------
(* calculate_ema in binary floating point.  The engine computes on Python
   floats; above, their rounding is below the working step and is left out.
   Here a float has FloatBits significant bits and every operation rounds
   its exact result to the nearest float, ties to even, as IEEE 754 does.
   A float is held as its multiple of 2^-FracBits. *)

FloatBits == 6

FracBits == FloatBits + 4

RECURSIVE Pow2(_)
Pow2(k) == IF k = 0 THEN 1 ELSE 2 * Pow2(k - 1)

FloatOne == Pow2(FracBits)

\* The spacing of the floats at x.
RECURSIVE Ulp(_)
Ulp(x) == IF x < Pow2(FloatBits) THEN 1 ELSE 2 * Ulp(x \div 2)

\* The float nearest to num / den.
FloatRound(num, den) ==
    LET ulp == Ulp(num \div den)
    IN  ulp * RoundDiv(num, den * ulp)

\* float(p.close_price), the close in cents
FloatOf(cents) == FloatRound(cents * FloatOne, 100)

\* a + b and a - b are FloatRound(a + b, 1) and FloatRound(a - b, 1).
FloatMul(a, b) == FloatRound(a * b, FloatOne)

\* multiplier = 2 / (period + 1)
Multiplier(period) == FloatRound(2 * FloatOne, period + 1)

\* statistics.mean(prices[:period]): the exact mean, then rounded.
FloatMean(prices, period) == FloatRound(SumRange(prices, 1, period), period)

\* A variant that weighs the running value by the multiplier, not by its
\* complement.
FloatEmaStepNoComplement(price, multiplier, ema) ==
    FloatRound(FloatMul(price, multiplier) + FloatMul(ema, multiplier), 1)

\* ema = (price * multiplier) + (ema * (1 - multiplier))
FloatEmaStep(price, multiplier, ema) ==
    FloatRound(FloatMul(price, multiplier)
               + FloatMul(ema, FloatRound(FloatOne - multiplier, 1)), 1)

\* for price in prices[period:], up to index j
RECURSIVE FloatEmaLoop(_, _, _)
FloatEmaLoop(prices, period, j) ==
    IF j <= period THEN FloatMean(prices, period)
    ELSE FloatEmaStep(prices[j], Multiplier(period),
                      FloatEmaLoop(prices, period, j - 1))

\* calculate_ema on floats
FloatEma(prices, period) ==
    IF Len(prices) < period THEN 0
    ELSE FloatEmaLoop(prices, period, Len(prices))

\* The inputs: a constant series of a close up to MaxCloseCents, as long as
\* the period (12 or 26, the periods of ema_12 and ema_26) and up to MaxExtra
\* closes more.
MaxCloseCents == 1500

CloseStride == 7

MaxExtra == 4

EmaInputs ==
    {[prices |-> [i \in 1..(period + extra) |-> FloatOf(cents)],
      period |-> period] :
        cents \in {c \in 100..MaxCloseCents : c % CloseStride = 0},
        period \in {12, 26}, extra \in 0..MaxExtra}

InitEma ==
    /\ stock = [s \in Symbols |-> None]
    /\ bars = [s \in Symbols |-> <<>>]
    /\ snap = [s \in Symbols |-> None]
    /\ ti_rows = [s \in Symbols |-> 0]
    /\ RunIdle
    /\ fn = "none"
    /\ arg \in EmaInputs
    /\ ret = None
    /\ NoRace
    /\ NoApp

ApplyEma ==
    /\ fn = "none"
    /\ fn' = "calculate_ema"
    /\ ret' = Some(FloatEma(arg.prices, arg.period))
    /\ UNCHANGED <<db_vars, run_vars, commands, hist_vars, arg, race_vars, app_vars>>

SpecEma == InitEma /\ [][ApplyEma]_vars

----------------------------------------------------------------------------
(* The loop body applied on its own to a new record and a security without
   a current price: rising, falling and zigzag bars of MinHistory to
   MaxMacdLen days, and constant bars on either side of 50 and 200 days *)

MaxMacdLen == 45

BodyHistories ==
    {[n |-> n, shape |-> shape, volume |-> BarVolume] :
        n \in MinHistory..MaxMacdLen, shape \in {"rise", "fall", "zigzag"}}
    \cup {[n |-> n, shape |-> "flat", volume |-> BarVolume] :
             n \in {MinHistory, 49, 50, 51, HistoryLimit - 1, HistoryLimit}}

InitBody ==
    /\ stock = [s \in Symbols |-> None]
    /\ bars = [s \in Symbols |-> <<>>]
    /\ snap = [s \in Symbols |-> None]
    /\ ti_rows = [s \in Symbols |-> 0]
    /\ RunIdle
    /\ fn = "none"
    /\ \E h \in BodyHistories : arg = MkHistory(h)
    /\ ret = None
    /\ NoRace
    /\ NoApp

ApplyBody ==
    /\ fn = "none"
    /\ fn' = "handle"
    /\ ret' = Some(Analyzed(Load(NewIndicators), arg,
                            [current_price |-> None, volume |-> None]))
    /\ UNCHANGED <<db_vars, run_vars, commands, hist_vars, arg, race_vars, app_vars>>

SpecBody == InitBody /\ [][ApplyBody]_vars

----------------------------------------------------------------------------
(* calculate_overall_signal applied on its own to every combination of an
   RSI, a MACD line and signal, a trend label and a price position, each
   null or on either side of its thresholds *)

MaxMacd == 1

InitSignal ==
    /\ stock = [s \in Symbols |-> None]
    /\ bars = [s \in Symbols |-> <<>>]
    /\ snap = [s \in Symbols |-> None]
    /\ ti_rows = [s \in Symbols |-> 0]
    /\ RunIdle
    /\ fn = "none"
    /\ \E rsi \in {None} \cup {Some(v * PctWork) : v \in {0, 20, 35, 50, 65, 80}},
          line \in {None} \cup {Some(v) : v \in (0 - MaxMacd)..MaxMacd},
          signal \in {None, Some(0), Some(0 - MaxMacd)},
          vs_sma20 \in {None} \cup {Some(v * PctWork) : v \in {-6, 0, 6}},
          direction \in {"strong_bullish", "bullish", "neutral", "bearish",
                         "strong_bearish"} :
          arg = [rsi_14 |-> rsi, macd_line |-> line, macd_signal |-> signal,
                 price_vs_sma20 |-> vs_sma20, trend_direction |-> direction]
    /\ ret = None
    /\ NoRace
    /\ NoApp

ApplySignal ==
    /\ fn = "none"
    /\ fn' = "overall_signal"
    /\ ret' = Some(calculate_overall_signal(arg))
    /\ UNCHANGED <<db_vars, run_vars, commands, hist_vars, arg, race_vars, app_vars>>

SpecSignal == InitSignal /\ [][ApplySignal]_vars

----------------------------------------------------------------------------
(* Two batch runs that overlap at one security, MSF, while bars are appended.
   Each run is followed through the loop body for that security: the history
   query, the skip, get_or_create, save().  The histories neither raise nor
   overflow a field. *)

MaxAppends == 2

AppendRise == 100

RaceHistories ==
    {[n |-> 19, shape |-> "rise", volume |-> BarVolume],
     [n |-> 20, shape |-> "fall", volume |-> BarVolume],
     [n |-> 60, shape |-> "flat", volume |-> BarVolume]}

InitRace ==
    /\ \E h \in RaceHistories :
          /\ bars = [s \in Symbols |-> IF s = MSF THEN MkHistory(h) ELSE <<>>]
          /\ stock = [s \in Symbols |->
                        IF s = MSF
                        THEN Some([current_price |-> Some(LastClose(h)),
                                   volume |-> None])
                        ELSE None]
    /\ snap = [s \in Symbols |-> None]
    /\ ti_rows = [s \in Symbols |-> 0]
    /\ RunIdle
    /\ NoFunction
    /\ NoRace
    /\ NoApp

\* A StockPrice row is added for the next day.
AppendBar ==
    /\ appended < MaxAppends
    /\ appended' = appended + 1
    /\ bars' = [bars EXCEPT ![MSF] =
                   Append(@, MkBar(@[Len(@)].close + AppendRise, BarVolume))]
    /\ UNCHANGED <<stock, snap, ti_rows, run_vars, commands, hist_vars,
                   fn_vars, run_pc, run_data, run_row, last_saver, app_vars>>

\* price_data = StockPrice.objects.filter(stock=stock).order_by('-date')[:200]
ReadBars(p) ==
    /\ run_pc[p] = "start"
    /\ run_pc' = [run_pc EXCEPT ![p] = "read"]
    /\ run_data' = [run_data EXCEPT ![p] = PriceData(bars[MSF])]
    /\ UNCHANGED <<db_vars, run_vars, commands, hist_vars, fn_vars, run_row,
                   last_saver, appended, app_vars>>

\* if len(price_data) < 20: continue
RaceSkip(p) ==
    /\ run_pc[p] = "read"
    /\ Len(run_data[p]) < MinHistory
    /\ run_pc' = [run_pc EXCEPT ![p] = "skipped"]
    /\ UNCHANGED <<db_vars, run_vars, commands, hist_vars, fn_vars, run_data,
                   run_row, last_saver, appended, app_vars>>

\* tech_indicators, created = TechnicalIndicators.objects.get_or_create(stock=stock)
RaceGetOrCreate(p) ==
    /\ run_pc[p] = "read"
    /\ Len(run_data[p]) >= MinHistory
    /\ run_pc' = [run_pc EXCEPT ![p] = "got"]
    /\ run_row' = [run_row EXCEPT ![p] = Some(GetOrCreate(MSF))]
    /\ snap' = [snap EXCEPT ![MSF] = Some(GetOrCreate(MSF))]
    /\ ti_rows' = Inserted(MSF)
    /\ UNCHANGED <<stock, bars, run_vars, commands, hist_vars, fn_vars,
                   run_data, last_saver, appended, app_vars>>

\* A variant in which save() works on the bars stored at that moment.
RaceInputFresh(p) == PriceData(bars[MSF])

\* The bars run p computes on: the ones its query returned.
RaceInput(p) == run_data[p]

\* The row run p writes: its in-memory record, as stored.
RaceRow(p, price_data) ==
    Quantize(Analyzed(Load(Val(run_row[p])), price_data, Val(stock[MSF])))

\* tech_indicators.save()
RaceSave(p) ==
    /\ run_pc[p] = "got"
    /\ ~Raises(RaceInput(p))
    /\ FitsFields(RaceRow(p, RaceInput(p)))
    /\ run_pc' = [run_pc EXCEPT ![p] = "saved"]
    /\ snap' = [snap EXCEPT ![MSF] = Some(RaceRow(p, RaceInput(p)))]
    /\ last_saver' = p
    /\ UNCHANGED <<stock, bars, ti_rows, run_vars, commands, hist_vars,
                   fn_vars, run_data, run_row, appended, app_vars>>

NextRace ==
    \/ AppendBar
    \/ \E p \in Runs : ReadBars(p)
    \/ \E p \in Runs : RaceSkip(p)
    \/ \E p \in Runs : RaceGetOrCreate(p)
    \/ \E p \in Runs : RaceSave(p)

SpecRace == InitRace /\ [][NextRace]_vars

----------------------------------------------------------------------------
(* PreMarketStopLoss: activate_at_market_open, execute_order and cancel_order
   called in any order on one order.  fn, arg and ret hold the last call, its
   arguments and what it returned: Some([value, message]), the message None
   when the method returns a bare boolean, and None when the call raised.
   The view stores any stop price above zero, rounded to two places, so a
   stored stop price is zero or more. *)

MaxPriceGap == 6

\* The execution prices: the stop price and up to MaxPriceGap cents either
\* side of it.
ExecutionPrices == (StopPrice - MaxPriceGap)..(StopPrice + MaxPriceGap)

InitOrder ==
    /\ stock = [s \in Symbols |-> None]
    /\ bars = [s \in Symbols |-> <<>>]
    /\ snap = [s \in Symbols |-> None]
    /\ ti_rows = [s \in Symbols |-> 0]
    /\ RunIdle
    /\ NoFunction
    /\ NoRace
    /\ \E trigger_condition \in {"market_open", "pre_market", "any_session"},
          status \in {"pending", "active", "triggered", "cancelled",
                      "expired", "rejected"},
          stop_price \in {0, StopPrice} :
          order = NewOrder(trigger_condition, status, stop_price)
    /\ trades = <<>>
    /\ position = None
    /\ stop_loss = [status |-> "active", quantity |-> OrderQuantity]

activate_at_market_open ==
    /\ fn' = "activate_at_market_open"
    /\ arg' = <<>>
    /\ IF order.status = "pending" /\ order.trigger_condition = "market_open"
       THEN /\ order' = [order EXCEPT !.status = "active"]
            /\ ret' = Some([value |-> TRUE, message |-> None])
       ELSE /\ order' = order
            /\ ret' = Some([value |-> FALSE, message |-> None])
    /\ UNCHANGED <<db_vars, run_vars, commands, hist_vars, race_vars, trades,
                   position, stop_loss>>

\* slippage_percent > self.max_slippage_percent, for prices in cents
SlippageTooHigh(execution_price) ==
    Abs(execution_price - order.stop_price) * 100 * 100
        > order.max_slippage_percent * order.stop_price

execute_order ==
    \E execution_price \in ExecutionPrices :
        /\ fn' = "execute_order"
        /\ arg' = <<execution_price>>
        /\ IF order.status # "active"
           THEN /\ ret' = Some([value |-> FALSE,
                                message |-> Some("Order is not active")])
                /\ UNCHANGED <<order, trades>>
           ELSE IF order.stop_price = 0
           THEN \* slippage_amount / expected_price raises
                /\ ret' = None
                /\ UNCHANGED <<order, trades>>
           ELSE IF SlippageTooHigh(execution_price)
           THEN /\ ret' = Some([value |-> FALSE,
                                message |-> Some("Slippage too high")])
                /\ UNCHANGED <<order, trades>>
           ELSE /\ trades' = Append(trades,
                        [trade_type |-> "sell", order_type |-> "stop_loss",
                         quantity |-> order.quantity,
                         price |-> execution_price, status |-> "executed"])
                /\ order' = [order EXCEPT
                        !.status = "triggered",
                        !.executed_price = Some(execution_price),
                        !.executed_quantity = Some(order.quantity),
                        !.slippage =
                            Some(Abs(execution_price - order.stop_price)),
                        !.related_trade = Some(Len(trades) + 1)]
                /\ ret' = Some([value |-> TRUE,
                                message |-> Some("Stop loss executed")])
        /\ UNCHANGED <<db_vars, run_vars, commands, hist_vars, race_vars,
                       position, stop_loss>>

cancel_order ==
    /\ fn' = "cancel_order"
    /\ arg' = <<>>
    /\ IF order.status \in {"pending", "active"}
       THEN /\ order' = [order EXCEPT !.status = "cancelled"]
            /\ ret' = Some([value |-> TRUE, message |-> None])
       ELSE /\ order' = order
            /\ ret' = Some([value |-> FALSE, message |-> None])
    /\ UNCHANGED <<db_vars, run_vars, commands, hist_vars, race_vars, trades,
                   position, stop_loss>>

NextOrder ==
    \/ activate_at_market_open
    \/ execute_order
    \/ cancel_order

SpecOrder == InitOrder /\ [][NextOrder]_vars

----------------------------------------------------------------------------
(* The views trade_stock and cancel_stop_loss, posted in any order by one
   user for one stock.  position is the user's Portfolio row for the stock
   (None when there is none), trades the Trade rows in the order of their
   creation and stop_loss one StopLossOrder of the user for the stock.  fn
   and arg hold the last request and ret the message it flashed, None when
   it flashed none. *)

MaxQuantity == 2

MaxShares == 3

MaxTrades == 2

TradePrice == 1000

\* The posted prices, in cents: zero and two prices above it.
PostedPrices == {0, TradePrice, 2 * TradePrice + 1}

\* stop_loss_orders of trade_stock: the orders whose status is 'active'
ActiveStopLossOrders ==
    IF stop_loss.status = "active" THEN {stop_loss} ELSE {}

InitTrade ==
    /\ stock = [s \in Symbols |-> None]
    /\ bars = [s \in Symbols |-> <<>>]
    /\ snap = [s \in Symbols |-> None]
    /\ ti_rows = [s \in Symbols |-> 0]
    /\ RunIdle
    /\ NoFunction
    /\ NoRace
    /\ order = NewOrder("market_open", "pending", StopPrice)
    /\ trades = <<>>
    /\ position = None
    /\ \E status \in {"active", "triggered", "cancelled", "expired"} :
          stop_loss = [status |-> status, quantity |-> OrderQuantity]

\* The branch of trade_stock that updates the portfolio after a buy.
Bought(quantity, price) ==
    IF position # None
    THEN LET held == Val(position)
             total_quantity == held.quantity + quantity
             total_value == held.quantity * held.average_price
                                + quantity * price
         IN  Some([quantity |-> total_quantity,
                   average_price |-> RoundDiv(total_value, total_quantity)])
    ELSE Some([quantity |-> quantity, average_price |-> price])

trade_stock ==
    \E trade_type \in {"buy", "sell"}, quantity \in 0..MaxQuantity,
       price \in PostedPrices :
        /\ fn' = "trade_stock"
        /\ arg' = <<trade_type, quantity, price>>
        /\ IF quantity > 0 /\ price > 0
           THEN /\ Len(trades) < MaxTrades
                /\ trades' = Append(trades,
                        [trade_type |-> trade_type, order_type |-> "market",
                         quantity |-> quantity, price |-> price,
                         status |-> "pending"])
                /\ IF trade_type = "buy"
                   THEN /\ Val(Bought(quantity, price)).quantity <= MaxShares
                        /\ position' = Bought(quantity, price)
                        /\ ret' = Some("Trade executed successfully")
                   ELSE IF position # None
                            /\ Val(position).quantity >= quantity
                   THEN /\ position' =
                            IF Val(position).quantity = quantity THEN None
                            ELSE Some([Val(position) EXCEPT
                                          !.quantity = @ - quantity])
                        /\ ret' = Some("Trade executed successfully")
                   ELSE /\ position' = position
                        /\ ret' = Some("Insufficient shares to sell!")
           ELSE /\ ret' = None
                /\ UNCHANGED <<trades, position>>
        /\ UNCHANGED <<db_vars, run_vars, commands, hist_vars, race_vars,
                       order, stop_loss>>

\* is_active is no field of StopLossOrder: save() writes the row as it was.
cancel_stop_loss ==
    /\ fn' = "cancel_stop_loss"
    /\ arg' = <<>>
    /\ stop_loss' = stop_loss
    /\ ret' = Some("Stop loss order cancelled successfully!")
    /\ UNCHANGED <<db_vars, run_vars, commands, hist_vars, race_vars, order,
                   trades, position>>

NextTrade ==
    \/ trade_stock
    \/ cancel_stop_loss

SpecTrade == InitTrade /\ [][NextTrade]_vars

----------------------------------------------------------------------------
(* Properties of a batch run *)

\* The run in progress has saved, or skipped, security s.
Saved(s) == pc = "running" /\ outcome[s] = "saved"

Skipped(s) == pc = "running" /\ outcome[s] = "skipped"

\* len(price_data) for security s
BarCount(s) == Len(PriceData(bars[s]))

\* The row get_or_create handed the run in progress for security s.
Prior(s) == IF before[s] = None THEN NewIndicators ELSE Val(before[s])

\* The securities after s in the iteration of the run.
Later(s) == {stocks[i] : i \in {j \in 1..Len(stocks) : stocks[j] > s}}

\* C1: a failure of save() for one security is a failure for that security
\* only: once the command has ended, every later security of the iteration
\* with enough bars has been computed and saved in the same run.
C1_SaveFailureIsLocal ==
    \A s \in Symbols :
        (pc \in {"done", "failed"} /\ outcome[s] = "save_error") =>
            \A t \in Later(s) : BarCount(t) >= MinHistory => outcome[t] = "saved"

\* C1: the state the claim is about: save() failed for a security that has a
\* later security with enough bars behind it.
C1_SaveFailed ==
    \E s \in Symbols :
        /\ pc = "failed"
        /\ outcome[s] = "save_error"
        /\ \E t \in Later(s) : BarCount(t) >= MinHistory

\* C2 (as the code has it): a security with fewer than 20 bars is skipped
\* whole, and only such a security is.  From 20 bars on the indicators are
\* gated one by one: SMA(20), EMA(12) and RSI(14) are always written, EMA(26)
\* from 26 bars, and an average whose minimum exceeds the bar count is not
\* written: it keeps the value the row held before the run.
C2_GatedFromTwentyBars ==
    \A s \in Symbols :
        /\ Skipped(s) => BarCount(s) < MinHistory
        /\ Saved(s) =>
              LET n   == BarCount(s)
                  row == Val(snap[s])
                  old == Prior(s)
              IN  /\ n >= MinHistory
                  /\ row.sma_20 # None
                  /\ row.ema_12 # None
                  /\ row.rsi_14 # None
                  /\ n >= 26 => row.ema_26 # None
                  /\ n < 26 => row.ema_26 = old.ema_26
                  /\ n < 50 => row.sma_50 = old.sma_50
                  /\ n < 200 => row.sma_200 = old.sma_200
                  /\ n < 200 => row.ema_200 = old.ema_200

\* C2: a run that skipped a security of 12 to 19 bars and saved one of 20 to
\* 25 bars, whose EMA(26) stays unset.
C2_ShortAndLongerHistory ==
    /\ \E s \in Symbols : Skipped(s) /\ BarCount(s) >= 12
    /\ \E s \in Symbols :
          Saved(s) /\ BarCount(s) < 26 /\ Val(snap[s]).ema_26 = None

\* C2 (as stated): every security the run has dealt with that has at least 12
\* bars was not skipped and has EMA(12) set, and RSI(14) from 15 bars on.
C2_EachIndicatorOnItsOwnMinimum ==
    \A s \in Symbols :
        (pc = "running" /\ outcome[s] \in {"saved", "skipped"}
           /\ BarCount(s) >= 12) =>
            /\ outcome[s] = "saved"
            /\ Val(snap[s]).ema_12 # None
            /\ BarCount(s) >= 15 => Val(snap[s]).rsi_14 # None

\* C3 (as the code has it): a run leaves the snapshot of a security with
\* fewer than 20 bars as it found it: no row is created, and every field of
\* an existing row keeps its value, null or not.
C3_SkipKeepsSnapshot ==
    \A s \in Symbols : Skipped(s) => snap[s] = before[s]

\* C3: a skipped security whose row holds SMA(20), Bollinger bands, levels
\* and the volume average from before the run.
C3_SkippedWithPopulatedRow ==
    \E s \in Symbols :
        /\ Skipped(s)
        /\ snap[s] # None
        /\ Val(snap[s]).sma_20 # None
        /\ Val(snap[s]).support_level # None

\* C3 (as stated): after the run has dealt with a security of fewer than 20
\* bars, SMA(20), the Bollinger fields, support, resistance and the volume
\* average of its row are all null.
C3_ShortHistoryFieldsNull ==
    \A s \in Symbols :
        (Skipped(s) /\ snap[s] # None) =>
            LET row == Val(snap[s])
            IN  /\ row.sma_20 = None
                /\ row.bb_upper = None
                /\ row.bb_middle = None
                /\ row.bb_lower = None
                /\ row.bb_width = None
                /\ row.support_level = None
                /\ row.resistance_level = None
                /\ row.volume_sma_20 = None

\* The current price of security s is null.
NoPrice(s) == stock[s] # None /\ Val(stock[s]).current_price = None

\* C4 (as the code has it): a null current price does not make the run skip
\* a security: it is skipped only for fewer than 20 bars; with 20 bars or
\* more its snapshot is computed and saved, the price positions against the
\* averages written in this run being 0, and the run goes on.
C4_NullPriceIsComputed ==
    \A s \in Symbols :
        NoPrice(s) =>
            /\ Skipped(s) => BarCount(s) < MinHistory
            /\ Saved(s) =>
                  LET row == Val(snap[s])
                  IN  /\ row.sma_20 # None
                      /\ row.price_vs_sma20 = Some(0)
                      /\ BarCount(s) >= 50 => row.price_vs_sma50 = Some(0)
                      /\ BarCount(s) >= 200 => row.price_vs_sma200 = Some(0)

\* C4: the run saved the snapshot of a security without a current price and
\* has a later security still to do, or done.
C4_NullPriceSaved ==
    \E s \in Symbols : NoPrice(s) /\ Saved(s) /\ Later(s) # {}

\* C4 (as stated): a security without a current price that the run has dealt
\* with was skipped, and its snapshot is as before the run.
C4_NullPriceSkipped ==
    \A s \in Symbols :
        (pc = "running" /\ outcome[s] # "none" /\ NoPrice(s)) =>
            /\ outcome[s] = "skipped"
            /\ snap[s] = before[s]

\* The snapshot a run writes for security s from no stored row, with
\* Stock.volume = volume.
FromScratch(s, volume) ==
    Quantize(Analyzed(Load(NewIndicators), PriceData(bars[s]),
                      [current_price |-> Val(stock[s]).current_price,
                       volume |-> volume]))

\* C5: the snapshot a run saves is the one the bars and the current price
\* determine: whatever row was stored before and whatever Stock.volume is,
\* it is the snapshot of a run that starts from no row.
C5_FunctionOfBarsAndPrice ==
    \A s \in Symbols :
        Saved(s) => \A volume \in StockVolumes :
                        Val(snap[s]) = FromScratch(s, volume)

\* C5: a run saved over a row that was stored before it.
C5_SavedOverStoredRow ==
    \E s \in Symbols : Saved(s) /\ before[s] # None

C7_NoDivisionByZero ==
    \A s \in Symbols : outcome[s] # "zero_division"

\* C7: a run reached a security of 20 bars or more with a close of 0 four
\* bars before the last.
C7_ZeroCloseReached ==
    \E s \in Symbols :
        /\ pc = "failed"
        /\ outcome[s] = "zero_division"
        /\ BarCount(s) >= MinHistory

\* The closes of the 25-bar scenario: 100, 101, ..., 124.
RisingScenario(s) ==
    /\ Len(bars[s]) = 25
    /\ \A i \in 1..25 : bars[s][i].close = 100 * (99 + i)

\* C10 (as the code has it): for the 25 closes 100..124 the run stores
\* SMA(20) = 114.5, the mean of the last 20 closes 105..124, and
\* RSI(14) = 100.
C10_RisingScenarioStored ==
    \A s \in Symbols :
        (Saved(s) /\ RisingScenario(s)) =>
            /\ Val(snap[s]).sma_20 = Some(11450 * StoredPerCent)
            /\ Val(snap[s]).rsi_14 = Some(100 * PctStored)

\* C10: the run saved the snapshot of the first security, whose bars are the
\* scenario's.
C10_ScenarioSaved == Saved(MSF) /\ RisingScenario(MSF)

\* C10 (as stated): for the 25 closes 100..124 the run stores
\* SMA(20) = 110.5 and RSI(14) = 100.
C10_RisingScenarioAsStated ==
    \A s \in Symbols :
        (Saved(s) /\ RisingScenario(s)) =>
            /\ Val(snap[s]).sma_20 = Some(11050 * StoredPerCent)
            /\ Val(snap[s]).rsi_14 = Some(100 * PctStored)

\* The record of security s in memory when the run in progress saved it.
InMemory(s) == Analyzed(Load(Prior(s)), PriceData(bars[s]), Val(stock[s]))

\* All the closes stored for security s, oldest first.
StoredCloses(s) == Closes(bars[s])

\* C11: for a security with more than 200 stored bars the run sets
\* ema_200_direction by comparing EMA(200) of the stored closes with EMA(200)
\* of the closes without the last one: up, down or sideways.
C11_DirectionFromPreviousEma ==
    \A s \in Symbols :
        (Saved(s) /\ Len(bars[s]) > HistoryLimit) =>
            Val(snap[s]).ema_200_direction =
                Some(Direction(
                    calculate_ema(StoredCloses(s), 200),
                    calculate_ema(Prefix(StoredCloses(s), Len(bars[s]) - 1),
                                  200)))

\* C11: the run saved a security with more than 200 stored bars whose closes
\* rise every day, with the direction 'sideways'.
C11_LongRisingHistorySaved ==
    \E s \in Symbols :
        /\ Saved(s)
        /\ Len(bars[s]) > HistoryLimit
        /\ \A i \in 1..(Len(bars[s]) - 1) : bars[s][i].close < bars[s][i + 1].close
        /\ Val(snap[s]).ema_200_direction = Some("sideways")

\* The scores the run in progress computed for security s.
ScoredTrend(s) == TrendScore(Closes(PriceData(bars[s])), InMemory(s))

ScoredSignal(s) == SignalScore(InMemory(s))

\* C14: in every snapshot a run stores, trend_strength and signal_strength
\* are within 0..100, and the scores they come from are within -4..4 and
\* -6..6.
C14_StrengthsWithinRange ==
    \A s \in Symbols :
        Saved(s) =>
            LET ti == InMemory(s)
            IN  /\ Val(Val(snap[s]).trend_strength) \in 0..(100 * PctStored)
                /\ Val(Val(snap[s]).signal_strength) \in 0..(100 * PctStored)
                /\ TrendScore(Closes(PriceData(bars[s])), ti) \in (-4)..4
                /\ SignalScore(ti) \in (-6)..6

\* C14: the run saved a security with a negative signal score and a trend
\* score other than zero.
C14_ScoredSnapshotSaved ==
    \E s \in Symbols :
        /\ Saved(s)
        /\ ScoredSignal(s) <= -2
        /\ ScoredTrend(s) # 0
        /\ Val(Val(snap[s]).signal_strength) > 0
        /\ Val(Val(snap[s]).trend_strength) > 0

\* The signal score with every present indicator counted, zero or not.
PresentScoreRsi(ti) ==
    IF ti.rsi_14 # None
    THEN LET rsi == Val(ti.rsi_14)
         IN  IF rsi < 30 * PctWork THEN 2
             ELSE IF rsi < 40 * PctWork THEN 1
             ELSE IF rsi > 70 * PctWork THEN -2
             ELSE IF rsi > 60 * PctWork THEN -1
             ELSE 0
    ELSE 0

PresentScoreMacd(ti) ==
    IF ti.macd_line # None /\ ti.macd_signal # None
    THEN IF Val(ti.macd_line) > Val(ti.macd_signal) THEN 1 ELSE -1
    ELSE 0

\* C15: in the overall-signal score of a saved snapshot a present indicator
\* counts even when its value is zero: an RSI of 0 counts +2, a MACD line of
\* 0 with a signal present counts +1 or -1; only a null indicator counts
\* nothing.
C15_ZeroIndicatorCounts ==
    \A s \in Symbols :
        Saved(s) =>
            LET ti == InMemory(s)
            IN  /\ SignalScoreRsi(ti) = PresentScoreRsi(ti)
                /\ SignalScoreMacd(ti) = PresentScoreMacd(ti)

\* C15: the run saved a security whose RSI is 0, with a label that is not
\* the one of the score that counts the RSI.
C15_ZeroRsiSaved ==
    \E s \in Symbols :
        /\ Saved(s)
        /\ InMemory(s).rsi_14 = Some(0)
        /\ Val(snap[s]).overall_signal #
               SignalLabel(ScoredSignal(s) + 2).signal

\* The securities whose snapshot the last run computed and saved.
SavedInRun == {s \in Symbols : outcome[s] = "saved"}

\* C16: the count a finished run reports as successfully calculated is the
\* number of securities whose snapshot the run saved; skipped securities are
\* not counted.
C16_ReportCountsSaved ==
    pc = "done" => Val(reported) = Cardinality(SavedInRun)

\* C16: a run that skipped one security and saved another has finished and
\* reported both.
C16_ReportedWithSkip ==
    /\ pc = "done"
    /\ \E s \in Symbols : outcome[s] = "skipped"
    /\ \E s \in Symbols : outcome[s] = "saved"
    /\ Val(reported) = Cardinality(SavedInRun) + 1

\* C17: after any sequence of batch runs and update_msf_signals runs every
\* security has at most one snapshot row; a run on a security without one
\* creates exactly one, and a run on a security with one keeps that one row.
C17_OneRowPerSecurity ==
    \A s \in Symbols :
        /\ ti_rows[s] <= 1
        /\ ti_rows[s] = 1 <=> snap[s] # None
        /\ Saved(s) => ti_rows[s] = 1

\* C17: a batch run saved over the snapshot row an earlier command had made
\* for a security.
C17_SavedOverExistingRow ==
    \E s \in Symbols : Saved(s) /\ before[s] # None /\ ti_rows[s] = 1

\* The last batch run has ended and nothing else has run since the start.
RunEnded == pc \in {"done", "failed"} /\ commands = runs

\* No save() of the last run failed.
NoSaveFailed == \A s \in Symbols : outcome[s] # "save_error"

\* C19: a run in which no save fails visits every security: once it has
\* ended, each security with at least 20 bars has been saved and each one
\* with fewer has been skipped.
C19_EverySecurityVisited ==
    (RunEnded /\ NoSaveFailed) =>
        \A i \in 1..Len(stocks) :
            outcome[stocks[i]] =
                IF BarCount(stocks[i]) >= MinHistory THEN "saved" ELSE "skipped"

\* C19: a run in which no save failed has ended with a security of 20 bars
\* or more not saved and a later security not visited.
C19_EndedBeforeLaterSecurity ==
    /\ RunEnded
    /\ NoSaveFailed
    /\ \E s \in Symbols :
          /\ BarCount(s) >= MinHistory
          /\ outcome[s] = "zero_division"
          /\ \E l \in Later(s) :
                BarCount(l) >= MinHistory /\ outcome[l] = "none"

\* C20: a batch run changes nothing but snapshots: from its start to its
\* end no step of it changes a StockPrice bar or a Stock row, whether it
\* saves or skips the security.
C20_RunChangesOnlySnapshots ==
    [][(pc = "running" \/ pc' = "running") =>
           (bars' = bars /\ stock' = stock)]_vars

\* C20: a run in progress has saved one security and skipped another.
C20_SavedAndSkipped ==
    /\ \E s \in Symbols : Saved(s) /\ snap[s] # before[s]
    /\ \E s \in Symbols : Skipped(s)

\* C23: no stored snapshot has ema_200_direction 'up' or 'down': whenever a
\* run sets the direction, EMA(200) of the 200 bars it loads is SMA(200) and
\* the direction is 'sideways' ('neutral' if SMA(200) is zero).
C23_DirectionNeverUpOrDown ==
    \A s \in Symbols :
        /\ snap[s] # None =>
              Val(snap[s]).ema_200_direction
                  \in {None, Some("sideways"), Some("neutral")}
        /\ (Saved(s) /\ Len(bars[s]) >= HistoryLimit) =>
              /\ Val(snap[s]).ema_200 = Val(snap[s]).sma_200
              /\ Val(snap[s]).ema_200_direction =
                    IF Val(snap[s]).sma_200 = Some(0) THEN Some("neutral")
                    ELSE Some("sideways")

\* C23: a run saved a security of 200 bars or more whose closes are not all
\* the same, with the direction 'sideways'.
C23_DirectionSet ==
    \E s \in Symbols :
        /\ Saved(s)
        /\ Len(bars[s]) >= HistoryLimit
        /\ bars[s][1].close # bars[s][Len(bars[s])].close
        /\ Val(snap[s]).ema_200 # None
        /\ Val(snap[s]).ema_200_direction = Some("sideways")

\* C24: a security with fewer than 20 bars is skipped before the snapshot
\* table is touched: if it had no snapshot it has none after the skip, and
\* no row was inserted; if it had one, that row is the same in every field.
C24_SkipBeforeSnapshotAccess ==
    \A s \in Symbols :
        Skipped(s) =>
            /\ BarCount(s) < MinHistory
            /\ before[s] = None => (snap[s] = None /\ ti_rows[s] = 0)
            /\ before[s] # None =>
                  /\ ti_rows[s] = 1
                  /\ \A f \in TIFields : Val(snap[s])[f] = Val(before[s])[f]

\* C24: a run skipped one security that has no snapshot, after an earlier
\* run had saved another.
C24_SkippedWithoutSnapshot ==
    \E s \in Symbols :
        /\ Skipped(s)
        /\ snap[s] = None
        /\ \E o \in Symbols : o # s /\ before[o] # None

----------------------------------------------------------------------------
(* Properties of calculate_rsi *)

Applied == fn = "calculate_rsi"

\* The same close on every bar.
Flat(prices) == \A i \in 1..Len(prices) : prices[i] = prices[1]

\* The gains and the losses of the last 14 changes, summed.
LastGains(prices) == SumGains(prices, Len(prices) - 14, Len(prices) - 1)

LastLosses(prices) == SumLosses(prices, Len(prices) - 14, Len(prices) - 1)

\* C8 (as the code has it): for a flat series of at least 20 closes
\* calculate_rsi returns 100: nothing was lost, so the average loss is 0.
C8_FlatSeriesReturns100 ==
    (Applied /\ Len(arg) >= 20 /\ Flat(arg)) => ret = Some(100 * PctWork)

\* C8: calculate_rsi was applied to a flat series of at least 20 closes.
C8_FlatSeriesApplied == Applied /\ Len(arg) >= 20 /\ Flat(arg)

\* C8 (as stated): for a flat series of at least 20 closes calculate_rsi
\* returns the neutral value 50.
C8_FlatSeriesReturns50 ==
    (Applied /\ Len(arg) >= 20 /\ Flat(arg)) => ret = Some(50 * PctWork)

\* C9: the value calculate_rsi returns lies in [0, 100]; it is 50 for fewer
\* than 15 closes, 100 when the last 14 changes hold no loss, and otherwise
\* 100 - 100/(1 + avg_gain/avg_loss) = 100*gains/(gains + losses), to the
\* nearest working step.
C9_RsiValueAndRange ==
    Applied =>
        LET v == Val(ret)
            g == LastGains(arg)
            l == LastLosses(arg)
        IN  /\ 0 <= v /\ v <= 100 * PctWork
            /\ Len(arg) < 15 => v = 50 * PctWork
            /\ (Len(arg) >= 15 /\ l = 0) => v = 100 * PctWork
            /\ (Len(arg) >= 15 /\ l > 0) =>
                  /\ g >= 0
                  /\ 2 * Abs(v * (g + l) - 100 * PctWork * g) <= g + l

\* C9: calculate_rsi was applied to a series with gains and losses among
\* its last 14 changes.
C9_MixedSeriesApplied ==
    /\ Applied
    /\ Len(arg) >= 15
    /\ LastGains(arg) > 0
    /\ LastLosses(arg) > 0
    /\ Val(ret) > 0
    /\ Val(ret) < 100 * PctWork

----------------------------------------------------------------------------
(* Properties of the label tables *)

\* C12: the trend label and strength follow from the trend score alone:
\* >= 3 strong_bullish with min(100, |score|*20), 1..2 bullish with
\* |score|*15, <= -3 strong_bearish with min(100, |score|*20), -2..-1
\* bearish with |score|*15, 0 neutral with 0.
C12_TrendLabelTable ==
    fn = "analyze_trend" =>
        LET label  == Val(ret)
            capped == IF Abs(arg) * 20 > 100 THEN 100 ELSE Abs(arg) * 20
        IN  /\ arg >= 3 =>
                 label.direction = "strong_bullish" /\ label.strength = capped
            /\ arg \in 1..2 =>
                 label.direction = "bullish" /\ label.strength = Abs(arg) * 15
            /\ arg <= -3 =>
                 label.direction = "strong_bearish" /\ label.strength = capped
            /\ arg \in (-2)..(-1) =>
                 label.direction = "bearish" /\ label.strength = Abs(arg) * 15
            /\ arg = 0 => label.direction = "neutral" /\ label.strength = 0
            /\ arg = 3 => label.strength = 60

\* C12: the table was applied to a score whose strength is capped.
C12_CappedScoreLabelled ==
    fn = "analyze_trend" /\ arg >= 6 /\ Val(ret).strength = 100

\* C13: the signal label and strength follow from the signal score alone:
\* >= 4 strong_buy with min(100, |score|*15), 2..3 buy with |score|*12,
\* <= -4 strong_sell with min(100, |score|*15), -3..-2 sell with |score|*12,
\* -1..1 hold with 50 + |score|*5.
C13_SignalLabelTable ==
    fn = "calculate_overall_signal" =>
        LET label  == Val(ret)
            capped == IF Abs(arg) * 15 > 100 THEN 100 ELSE Abs(arg) * 15
        IN  /\ arg >= 4 =>
                 label.signal = "strong_buy" /\ label.strength = capped
            /\ arg \in 2..3 =>
                 label.signal = "buy" /\ label.strength = Abs(arg) * 12
            /\ arg <= -4 =>
                 label.signal = "strong_sell" /\ label.strength = capped
            /\ arg \in (-3)..(-2) =>
                 label.signal = "sell" /\ label.strength = Abs(arg) * 12
            /\ arg \in (-1)..1 =>
                 label.signal = "hold" /\ label.strength = 50 + Abs(arg) * 5

\* C13: the table was applied to a score of 1 or -1, a hold of strength 55.
C13_HoldAtOneLabelled ==
    /\ fn = "calculate_overall_signal"
    /\ Abs(arg) = 1
    /\ Val(ret).signal = "hold"
    /\ Val(ret).strength = 55

----------------------------------------------------------------------------
(* Properties of overlapping runs *)

\* The other run.
Other(p) == 3 - p

\* C18: nothing serializes two overlapping runs: the snapshot in the store
\* is the one the run that saved last computed from the history it had read,
\* however many bars were appended since and whatever the other run read.
C18_LastSaveWins ==
    last_saver # 0 =>
        snap[MSF] = Some(RaceRow(last_saver, run_data[last_saver]))

\* C18: a lost update.  A bar was appended between the two reads, both runs
\* saved, the run that read the older history saved last, and the snapshot
\* left is not the one the other run computed from the newer history.
C18_LostUpdate ==
    /\ last_saver # 0
    /\ run_pc[last_saver] = "saved"
    /\ run_pc[Other(last_saver)] = "saved"
    /\ Len(run_data[last_saver]) < Len(run_data[Other(last_saver)])
    /\ run_data[Other(last_saver)] = PriceData(bars[MSF])
    /\ snap[MSF] # Some(RaceRow(Other(last_saver), PriceData(bars[MSF])))
    /\ snap[MSF] = Some(RaceRow(last_saver, run_data[last_saver]))

----------------------------------------------------------------------------
(* Properties of calculate_ema on floats *)

AppliedEma == fn = "calculate_ema"

\* C21 (as claimed): for a constant series of at least N closes
\* calculate_ema returns exactly that constant.
C21_ConstantIsExact ==
    AppliedEma => Val(ret) = arg.prices[1]

\* C21 (as the code has it): for a constant series of exactly N closes
\* calculate_ema returns that constant; for a longer one every step of the
\* recurrence rounds, and the result is within one unit in the last place
\* of the constant per step.
C21_ConstantWithinRounding ==
    AppliedEma =>
        Abs(Val(ret) - arg.prices[1]) <=
            (Len(arg.prices) - arg.period) * Ulp(arg.prices[1])

\* C21: calculate_ema was applied to a constant series longer than its
\* period and returned another float than the constant.
C21_ConstantDrifted ==
    /\ AppliedEma
    /\ Len(arg.prices) > arg.period
    /\ \A i \in 1..Len(arg.prices) : arg.prices[i] = arg.prices[1]
    /\ Val(ret) # arg.prices[1]

----------------------------------------------------------------------------
(* Properties of the MACD block *)

\* calculate_ema(closes[:i], 12) - calculate_ema(closes[:i], 26)
MacdAt(price_data, i) ==
    calculate_ema(Prefix(Closes(price_data), i), 12)
    - calculate_ema(Prefix(Closes(price_data), i), 26)

\* C22: the MACD signal and histogram are set only from 35 bars on.  With 26
\* to 34 bars the line is set and the other two stay unset; with N >= 35 bars
\* the signal is the mean of the 9 MACD values of the prefixes closes[:i],
\* i = N-9 .. N-1, and the histogram is line - signal.
C22_SignalFromNineValues ==
    fn = "handle" =>
        LET N  == Len(arg)
            ti == Val(ret)
        IN  /\ N \in 26..34 =>
                 /\ ti.macd_line = Some(MacdAt(arg, N))
                 /\ ti.macd_signal = None
                 /\ ti.macd_histogram = None
            /\ N >= 35 =>
                 /\ ti.macd_line = Some(MacdAt(arg, N))
                 /\ ti.macd_signal =
                       Some(RoundDiv(MacdAt(arg, N - 9) + MacdAt(arg, N - 8)
                                     + MacdAt(arg, N - 7) + MacdAt(arg, N - 6)
                                     + MacdAt(arg, N - 5) + MacdAt(arg, N - 4)
                                     + MacdAt(arg, N - 3) + MacdAt(arg, N - 2)
                                     + MacdAt(arg, N - 1), 9))
                 /\ ti.macd_histogram =
                       Some(Val(ti.macd_line) - Val(ti.macd_signal))

\* C22: the block was applied to 35 bars or more whose signal differs from
\* the line.
C22_SignalComputed ==
    /\ fn = "handle"
    /\ Len(arg) >= 35
    /\ Val(ret).macd_signal # None
    /\ Val(ret).macd_histogram \notin {None, Some(0)}

----------------------------------------------------------------------------
(* Properties of calculate_overall_signal *)

Bearish == {"bearish", "strong_bearish"}

Bullish == {"bullish", "strong_bullish"}

\* C25: 'strong_buy' never comes with a bearish or strong_bearish trend, and
\* 'strong_sell' never with a bullish or strong_bullish one: against the
\* trend the score stays within -3..3.
C25_NoStrongSignalAgainstTrend ==
    fn = "overall_signal" =>
        /\ arg.trend_direction \in Bearish => Val(ret).signal # "strong_buy"
        /\ arg.trend_direction \in Bullish => Val(ret).signal # "strong_sell"
        /\ arg.trend_direction \in Bearish => SignalScore(arg) <= 3
        /\ arg.trend_direction \in Bullish => SignalScore(arg) >= -3

\* C25: the signal was computed for a bearish trend with every other
\* component in favour of buying, and is 'buy'.
C25_BuyAgainstBearishTrend ==
    /\ fn = "overall_signal"
    /\ arg.trend_direction = "bearish"
    /\ SignalScoreRsi(arg) = 2
    /\ SignalScoreMacd(arg) = 1
    /\ SignalScorePosition(arg) = 1
    /\ Val(ret).signal = "buy"

----------------------------------------------------------------------------
(* Properties of analyze_trend *)

Constant(price_data) ==
    \A i \in 1..Len(price_data) : price_data[i].close = price_data[1].close

\* C26: a tie counts as -1 in each moving-average comparison, so constant
\* closes are never neutral: from no snapshot, 20 to 49 constant bars give
\* bearish with strength 15 (score -1), 50 to 199 bearish with 30 (score -2)
\* and 200 strong_bearish with 60 (score -3).
C26_ConstantSeriesIsBearish ==
    (fn = "handle" /\ Constant(arg)) =>
        LET N  == Len(arg)
            ti == Val(ret)
        IN  /\ N \in 20..49 =>
                 /\ ti.trend_direction = "bearish"
                 /\ ti.trend_strength = Some(15 * PctWork)
            /\ N \in 50..199 =>
                 /\ ti.trend_direction = "bearish"
                 /\ ti.trend_strength = Some(30 * PctWork)
            /\ N = 200 =>
                 /\ ti.trend_direction = "strong_bearish"
                 /\ ti.trend_strength = Some(60 * PctWork)

\* C26: the loop body was applied to 200 constant bars.
C26_TwoHundredConstantBars ==
    /\ fn = "handle"
    /\ Constant(arg)
    /\ Len(arg) = 200
    /\ Val(ret).sma_50 = Val(ret).sma_200
    /\ Val(ret).trend_direction = "strong_bearish"

----------------------------------------------------------------------------
(* Properties of PreMarketStopLoss *)

StatusChanges ==
    {<<"pending", "active">>, <<"active", "triggered">>,
     <<"pending", "cancelled">>, <<"active", "cancelled">>}

\* The last call returned v, alone or with a message.
Returned(r, v) == r # None /\ Val(r).value = v

\* C27: over any sequence of calls the status changes only along pending ->
\* active, active -> triggered, pending -> cancelled and active ->
\* cancelled; a triggered, cancelled, expired or rejected order is never
\* changed again; a call that does not change the status returns False.
C27_StatusTransitions ==
    [][/\ order'.status # order.status =>
             <<order.status, order'.status>> \in StatusChanges
       /\ order.status \in {"triggered", "cancelled", "expired", "rejected"}
             => order' = order
       /\ order'.status = order.status => Returned(ret', FALSE)]_vars

\* C27: execute_order raised on an active order, whose status stays active.
C27_ExecuteRaised ==
    /\ fn = "execute_order"
    /\ ret = None
    /\ order.status = "active"

\* C28: execute_order creates at most one Trade per order; a call on an
\* order that is not active, or with slippage above max_slippage_percent,
\* returns (False, message), creates no Trade and leaves the order
\* unchanged; a successful call creates exactly one executed sell Trade for
\* the order's quantity at the execution price and links it as
\* related_trade.
C28_AtMostOneTrade ==
    [][fn' = "execute_order" =>
         /\ Len(trades') <= 1
         /\ (order.status # "active" \/ SlippageTooHigh(arg'[1])) =>
                /\ Returned(ret', FALSE)
                /\ Val(ret').message # None
                /\ trades' = trades
                /\ order' = order
         /\ Returned(ret', TRUE) =>
                /\ trades' = Append(trades,
                       [trade_type |-> "sell", order_type |-> "stop_loss",
                        quantity |-> order.quantity, price |-> arg'[1],
                        status |-> "executed"])
                /\ order'.related_trade = Some(Len(trades'))]_vars

\* C28: execute_order at a price away from a stop price of zero returned
\* nothing.
C28_ExecuteWithoutAnswer ==
    /\ fn = "execute_order"
    /\ ret = None
    /\ order.stop_price = 0
    /\ arg[1] # order.stop_price
    /\ trades = <<>>

----------------------------------------------------------------------------
(* Properties of trade_stock and cancel_stop_loss *)

\* The shares of the stock the user holds.
Held == IF position = None THEN 0 ELSE Val(position).quantity

\* C29: a sell order for more shares than the user holds is rejected with
\* 'Insufficient shares to sell!', creates no Trade and does not modify the
\* position; a position's quantity is never negative.
C29_RejectedSellChangesNothing ==
    [][/\ (/\ fn' = "trade_stock"
           /\ arg'[1] = "sell"
           /\ arg'[2] > 0
           /\ arg'[3] > 0
           /\ Held < arg'[2]) =>
              /\ ret' = Some("Insufficient shares to sell!")
              /\ trades' = trades
              /\ position' = position
       /\ position' # None => Val(position').quantity >= 0]_vars

\* C29: a sell was rejected for a user without a position, and a Trade of
\* that sell is stored.
C29_RejectedSellRecorded ==
    /\ fn = "trade_stock"
    /\ ret = Some("Insufficient shares to sell!")
    /\ position = None
    /\ trades # <<>>
    /\ trades[Len(trades)].trade_type = "sell"
    /\ trades[Len(trades)].quantity = arg[2]

\* C30: after cancel_stop_loss has reported 'Stop loss order cancelled
\* successfully!' the status of the order is not 'active' and trade_stock
\* does not list it among the active stop-loss orders.
C30_CancelledIsNotActive ==
    (fn = "cancel_stop_loss"
        /\ ret = Some("Stop loss order cancelled successfully!")) =>
       /\ stop_loss.status # "active"
       /\ stop_loss \notin ActiveStopLossOrders

\* C30: the cancellation was reported and trade_stock still lists the order.
C30_CancelledStillListed ==
    /\ fn = "cancel_stop_loss"
    /\ ret = Some("Stop loss order cancelled successfully!")
    /\ stop_loss \in ActiveStopLossOrders

====
